---- MODULE Spec2Model ----
(***************************************************************************)
(* Model of server/index.js of Github-Commit-Analyzer: the POST            *)
(* /api/analyze pipeline (collection, enrichment, aggregation, rollup),    *)
(* the per-commit summarizer with its parse-or-fallback, the model-aware   *)
(* OpenAI options and the SSE progress registry.                           *)
(*                                                                         *)
(* src/server/index.js holds two versions of the server one after the      *)
(* other; the later one (lines 306-599: progress streaming, ANY branch,    *)
(* model-aware options) is the one modelled.                               *)
(*                                                                         *)
(* One action is one run of the handler from the return of an awaited      *)
(* call to the next awaited call (or to the response).                     *)
(***************************************************************************)
EXTENDS Integers, Sequences, FiniteSets, TLC

\* ------------------------------------------------------------ bounds
\* Commits of the repository are identified by the shas 1..MaxSha.
MaxSha == 3
\* maxCommits of a request ranges over 0..MaxCap.
MaxCap == 2

\* ------------------------------------------------------- program constants
DEFAULT_BRANCH == "main"
ANY_BRANCH == "__ANY__"
DefaultModel == <<"g", "p", "t", "-", "4", "o", "-", "m", "i", "n", "i">>
Gpt5Marker == <<"g", "p", "t", "-", "5">>
\* cap of a channel's replay buffer
BufferCap == 2000
\* files.slice(0,3) of the fallback summary
NotableMax == 3
\* the absent value of JavaScript (undefined), where a string is expected
Undefined == "<undefined>"

\* ------------------------------------------------------------ helpers
Range(s) == {s[k] : k \in 1..Len(s)}
Min(a, b) == IF a <= b THEN a ELSE b
\* Array.prototype.slice(0, n) for n >= 0
Slice0(s, n) == SubSeq(s, 1, Min(n, Len(s)))
\* the sequences without repetition over a set
RECURSIVE InjSeqs(_)
InjSeqs(S) ==
    {<<>>} \cup UNION {{<<x>> \o t : t \in InjSeqs(S \ {x})} : x \in S}

\* ------------------------------------------------- the upstream repository
SHAS == 1..MaxSha
\* The branches the hosting API enumerates, in its enumeration order.
BranchOrder == <<"main", "dev">>
\* parents of a commit as the hosting API lists them: the even shas are merge
\* commits (two parents), sha 1 is the root commit, the others have one parent.
ParentsOf(s) ==
    IF s % 2 = 0 THEN <<s - 1, s + 1>> ELSE IF s = 1 THEN <<>> ELSE <<s - 1>>
\* commit.author.date and commit.committer.date as timestamps; 0 is absent.
AuthorDate(s) == CASE s = 1 -> 2 [] s = 3 -> 1 [] OTHER -> 0
CommitterDate(s) == CASE s = 2 -> 2 [] OTHER -> s
\* the commit object of listCommits
CommitObj(s) ==
    [sha |-> s, parents |-> ParentsOf(s),
     authorDate |-> AuthorDate(s), committerDate |-> CommitterDate(s)]
AllFiles == <<"a.js", "b.js", "c.js", "d.js">>
\* detail.data.files of getCommit: 2, 4, 1, 3, 0, ... files
FilesOf(s) == SubSeq(AllFiles, 1, (2 * s) % 5)
\* detail.data.stats of getCommit
AdditionsOf(s) == s
DeletionsOf(s) == s % 2

\* ------------------------------------------------------------ utilities
\* isMergeCommit with the comparison off by one, either way (mutants of the
\* code).
isMergeCommitOneParent(commit) == Len(commit.parents) >= 1
isMergeCommitThreeParents(commit) == Len(commit.parents) > 2
\* Array.isArray(commit.parents) && commit.parents.length > 1; the hosting API
\* always lists parents as an array.
isMergeCommit(commit) == Len(commit.parents) > 1

\* listed.filter(c => !isMergeCommit(c))
RECURSIVE FilterNonMerges(_)
FilterNonMerges(list) ==
    IF list = <<>> THEN <<>>
    ELSE IF ~isMergeCommit(CommitObj(Head(list)))
         THEN <<Head(list)>> \o FilterNonMerges(Tail(list))
         ELSE FilterNonMerges(Tail(list))

\* String.prototype.toLowerCase, on the characters model names are written in
ToLowerChar(c) ==
    CASE c = "G" -> "g" [] c = "P" -> "p" [] c = "T" -> "t" [] c = "M" -> "m"
      [] c = "I" -> "i" [] c = "N" -> "n" [] c = "O" -> "o" [] OTHER -> c
ToLowerCase(str) == [k \in 1..Len(str) |-> ToLowerChar(str[k])]
\* String.prototype.includes: a scan for the first position that matches
RECURSIVE IncludesFrom(_, _, _)
IncludesFrom(str, sub, k) ==
    IF k + Len(sub) - 1 > Len(str) THEN FALSE
    ELSE IF SubSeq(str, k, k + Len(sub) - 1) = sub THEN TRUE
    ELSE IncludesFrom(str, sub, k + 1)
Includes(str, sub) == IncludesFrom(str, sub, 1)

\* process.env.OPENAI_MODEL || 'gpt-4o-mini'
ModelFromEnv(env) == IF env = <<>> THEN DefaultModel ELSE env
\* IS_GPT5 without the toLowerCase() (a mutant of the code).
IsGpt5CaseSensitive(model) == Includes(model, Gpt5Marker)
\* const IS_GPT5 = (OPENAI_MODEL || '').toLowerCase().includes('gpt-5')
IsGpt5(model) == Includes(ToLowerCase(model), Gpt5Marker)
\* the options createOpenAIResponse passes to openai.responses.create
createOpenAIResponseOpts(model) ==
    [model |-> model,
     temperature |-> IF ~IsGpt5(model) THEN "0.2" ELSE Undefined]

\* ------------------------------------------------- the model's responses
\* resp.output_text of a per-commit call. Undefined is an absent output_text.
TextBlank == "  "
TextProse == "Here is the summary of the commit."
TextTruncated == "{\"summary\": \"Adds the"
TextNull == "null"
TextNumber == "42"
TextEmptyObject == "{}"
TextFeat == "{\"summary\":\"adds the api\",\"change_type\":\"feat\",\"areas\":[\"api\",\"ui\"],\"risk\":\"low\",\"test_impact\":\"add tests\",\"notable_files\":[\"a.js\"]}"
TextFix == "{\"summary\":\"fixes the ui\",\"change_type\":\"fix\",\"areas\":[\"ui\"],\"risk\":\"high\",\"test_impact\":\"none\",\"notable_files\":[]}"
TextConstructor == "{\"summary\":\"odd\",\"change_type\":\"constructor\",\"areas\":[\"api\"],\"risk\":\"low\",\"test_impact\":\"none\",\"notable_files\":[]}"
TextAreasString == "{\"summary\":\"docs\",\"change_type\":\"docs\",\"areas\":\"api\",\"risk\":\"medium\",\"test_impact\":\"none\",\"notable_files\":[]}"
\* an answer of the prompted shape that tags eleven areas
TextManyAreas == "{\"summary\":\"sweeping refactor\",\"change_type\":\"refactor\",\"areas\":[\"auth\",\"build\",\"cli\",\"config\",\"db\",\"deps\",\"docs\",\"infra\",\"tests\",\"ui\",\"api\"],\"risk\":\"medium\",\"test_impact\":\"rerun all\",\"notable_files\":[]}"
ModelTexts ==
    {Undefined, "", TextBlank, TextProse, TextTruncated, TextNull, TextNumber,
     TextEmptyObject, TextFeat, TextFix, TextConstructor, TextAreasString,
     TextManyAreas}

\* A JavaScript value as JSON.parse returns it, read the way the handler reads
\* it: its type, and for an object the six properties of the summary (a
\* missing property is Undefined; areasType tells what areas holds).
JsObject(summary, change_type, areasType, areas, risk, test_impact, notable) ==
    [type |-> "object", summary |-> summary, change_type |-> change_type,
     areasType |-> areasType, areas |-> areas, risk |-> risk,
     test_impact |-> test_impact, notable_files |-> notable]
JsScalar(type) ==
    [type |-> type, summary |-> Undefined, change_type |-> Undefined,
     areasType |-> "undefined", areas |-> <<>>, risk |-> Undefined,
     test_impact |-> Undefined, notable_files |-> <<>>]

\* periodResp.output_text of the rollup call: a document, and the same
\* document between blanks and line ends
RollupDocument == "# Period Summary ..."
RollupPadded == "\n  # Period Summary ...  \n"
\* trim that leaves the text as it is (a mutant)
TrimNothing(text) == text
\* String.prototype.trim
Trim(text) ==
    CASE text = TextBlank -> ""
      [] text = RollupPadded -> RollupDocument
      [] OTHER -> text
\* JSON.parse: [ok |-> FALSE] is a thrown SyntaxError.
JSONParse(text) ==
    CASE text = TextNull -> [ok |-> TRUE, val |-> JsScalar("null")]
      [] text = TextNumber -> [ok |-> TRUE, val |-> JsScalar("number")]
      [] text = TextEmptyObject ->
            [ok |-> TRUE,
             val |-> JsObject(Undefined, Undefined, "undefined", <<>>,
                              Undefined, Undefined, <<>>)]
      [] text = TextFeat ->
            [ok |-> TRUE,
             val |-> JsObject("adds the api", "feat", "array", <<"api", "ui">>,
                              "low", "add tests", <<"a.js">>)]
      [] text = TextFix ->
            [ok |-> TRUE,
             val |-> JsObject("fixes the ui", "fix", "array", <<"ui">>,
                              "high", "none", <<>>)]
      [] text = TextConstructor ->
            [ok |-> TRUE,
             val |-> JsObject("odd", "constructor", "array", <<"api">>,
                              "low", "none", <<>>)]
      [] text = TextAreasString ->
            [ok |-> TRUE,
             val |-> JsObject("docs", "docs", "string", <<>>,
                              "medium", "none", <<>>)]
      [] text = TextManyAreas ->
            [ok |-> TRUE,
             val |-> JsObject("sweeping refactor", "refactor", "array",
                              <<"auth", "build", "cli", "config", "db", "deps",
                                "docs", "infra", "tests", "ui", "api">>,
                              "medium", "rerun all", <<>>)]
      [] OTHER -> [ok |-> FALSE, val |-> JsScalar("undefined")]

\* the object of the catch branch of summarizeCommit
FallbackSummary(files) ==
    JsObject("Could not parse summary (model returned non-JSON).", "other",
             "array", <<>>, "low", "N/A", Slice0(files, NotableMax))
\* the fallback with files.slice(0,3) forgotten (a mutant of the code)
summarizeCommitAllFiles(text, files) ==
    LET trimmed == IF text = Undefined THEN "" ELSE Trim(text)
        parsed == JSONParse(trimmed)
    IN IF parsed.ok THEN parsed.val
       ELSE [FallbackSummary(files) EXCEPT !.notable_files = files]
\* summarizeCommit once the model call has returned `text`: the parsed value,
\* or the fallback when JSON.parse throws.
summarizeCommit(text, files) ==
    LET trimmed == IF text = Undefined THEN "" ELSE Trim(text)
        parsed == JSONParse(trimmed)
    IN IF parsed.ok THEN parsed.val ELSE FallbackSummary(files)

\* ------------------------------------------------------------ aggregation
\* typeCounts and riskCounts are plain objects: a read of a key the object
\* does not own goes to Object.prototype.
ObjectPrototypeKeys ==
    {"constructor", "toString", "toLocaleString", "valueOf", "hasOwnProperty",
     "isPrototypeOf", "propertyIsEnumerable", "__proto__"}
\* A property value: a number, or (str non-empty) the pieces of a string.
JsNumber(n) == [num |-> n, str |-> <<>>]
\* String(undefined) as a property key
ToPropertyKey(v) == IF v = Undefined THEN "undefined" ELSE v
\* (obj[key] || 0) + 1
NextCount(obj, key) ==
    IF key \in DOMAIN obj
    THEN IF obj[key].str = <<>>
         THEN JsNumber(obj[key].num + 1)
         ELSE [num |-> 0, str |-> Append(obj[key].str, "1")]
    ELSE IF key = "__proto__" THEN [num |-> 0, str |-> <<"[object Object]", "1">>]
    ELSE IF key \in ObjectPrototypeKeys
         THEN [num |-> 0, str |-> <<"function () { [native code] }", "1">>]
    ELSE JsNumber(1)
\* obj[key] = (obj[key] || 0) + 1; the __proto__ setter ignores a primitive
IncrementCount(obj, key) ==
    IF key = "__proto__" THEN obj
    ELSE [k \in DOMAIN obj \cup {key} |->
             IF k = key THEN NextCount(obj, key) ELSE obj[k]]

\* areaCounts is a Map: its entries in insertion order.
MapIndex(m, key) ==
    IF \E k \in 1..Len(m) : m[k].key = key
    THEN CHOOSE k \in 1..Len(m) : m[k].key = key
    ELSE 0
\* areaCounts.set(a, (areaCounts.get(a) || 0) + 1)
MapIncrement(m, key) ==
    LET k == MapIndex(m, key)
    IN IF k = 0 THEN Append(m, [key |-> key, n |-> 1])
       ELSE [m EXCEPT ![k].n = @ + 1]
\* (ai.areas || []).forEach(a => ...)
RECURSIVE CountAreas(_, _)
CountAreas(m, areas) ==
    IF areas = <<>> THEN m
    ELSE CountAreas(MapIncrement(m, Head(areas)), Tail(areas))
\* the insertion with equal counts put in reverse order (a mutant)
RECURSIVE InsertByCountTiesReversed(_, _)
InsertByCountTiesReversed(sorted, e) ==
    IF sorted = <<>> THEN <<e>>
    ELSE IF Head(sorted).n > e.n
         THEN <<Head(sorted)>> \o InsertByCountTiesReversed(Tail(sorted), e)
         ELSE <<e>> \o sorted
\* Array.prototype.sort((a,b) => b[1]-a[1]): stable, by descending count
RECURSIVE InsertByCount(_, _)
InsertByCount(sorted, e) ==
    IF sorted = <<>> THEN <<e>>
    ELSE IF Head(sorted).n >= e.n
         THEN <<Head(sorted)>> \o InsertByCount(Tail(sorted), e)
         ELSE <<e>> \o sorted
RECURSIVE SortByCount(_)
SortByCount(m) ==
    IF m = <<>> THEN <<>>
    ELSE InsertByCount(SortByCount(SubSeq(m, 1, Len(m) - 1)), m[Len(m)])
sortedAreas(m) == LET s == SortByCount(m) IN [k \in 1..Len(s) |-> s[k].key]

\* ------------------------------------------------------------ collection
\* seen.has(sha): seen is a Map keyed by sha, kept as its keys in insertion
\* order.
SeenHas(seen, sha) == \E k \in 1..Len(seen) : seen[k] = sha
\* the inner loop of the ANY collection, without the seen.has test (a mutant)
RECURSIVE InsertListNoDedup(_, _, _, _)
InsertListNoDedup(seen, list, includeMerges, maxCommits) ==
    IF list = <<>> THEN seen
    ELSE IF ~includeMerges /\ isMergeCommit(CommitObj(Head(list)))
         THEN InsertListNoDedup(seen, Tail(list), includeMerges, maxCommits)
    ELSE IF Len(seen) + 1 >= maxCommits THEN Append(seen, Head(list))
    ELSE InsertListNoDedup(Append(seen, Head(list)), Tail(list),
                           includeMerges, maxCommits)
\* the inner loop with the cap tested by > instead of >= (a mutant)
RECURSIVE InsertListOffByOne(_, _, _, _)
InsertListOffByOne(seen, list, includeMerges, maxCommits) ==
    IF list = <<>> THEN seen
    ELSE IF ~includeMerges /\ isMergeCommit(CommitObj(Head(list)))
         THEN InsertListOffByOne(seen, Tail(list), includeMerges, maxCommits)
    ELSE IF ~SeenHas(seen, Head(list))
         THEN IF Len(seen) + 1 > maxCommits THEN Append(seen, Head(list))
              ELSE InsertListOffByOne(Append(seen, Head(list)), Tail(list),
                                      includeMerges, maxCommits)
    ELSE InsertListOffByOne(seen, Tail(list), includeMerges, maxCommits)
\* for (const c of list) { if (!includeMerges && isMergeCommit(c)) continue;
\*   if (!seen.has(c.sha)) { seen.set(c.sha, c);
\*                           if (seen.size >= maxCommits) break; } }
RECURSIVE InsertList(_, _, _, _)
InsertList(seen, list, includeMerges, maxCommits) ==
    IF list = <<>> THEN seen
    ELSE IF ~includeMerges /\ isMergeCommit(CommitObj(Head(list)))
         THEN InsertList(seen, Tail(list), includeMerges, maxCommits)
    ELSE IF ~SeenHas(seen, Head(list))
         THEN IF Len(seen) + 1 >= maxCommits THEN Append(seen, Head(list))
              ELSE InsertList(Append(seen, Head(list)), Tail(list),
                              includeMerges, maxCommits)
    ELSE InsertList(seen, Tail(list), includeMerges, maxCommits)

\* the timestamp preferring the committer date (a mutant)
TimestampCommitterFirst(sha) ==
    IF CommitObj(sha).committerDate # 0 THEN CommitObj(sha).committerDate
    ELSE CommitObj(sha).authorDate
\* new Date(c.commit.author?.date || c.commit.committer?.date || 0)
Timestamp(sha) ==
    IF CommitObj(sha).authorDate # 0 THEN CommitObj(sha).authorDate
    ELSE CommitObj(sha).committerDate
\* commits.sort((a,b) => date(b) - date(a)): stable, by descending timestamp
RECURSIVE InsertByDate(_, _)
InsertByDate(sorted, sha) ==
    IF sorted = <<>> THEN <<sha>>
    ELSE IF Timestamp(Head(sorted)) >= Timestamp(sha)
         THEN <<Head(sorted)>> \o InsertByDate(Tail(sorted), sha)
         ELSE <<sha>> \o sorted
RECURSIVE SortByDate(_)
SortByDate(list) ==
    IF list = <<>> THEN <<>>
    ELSE InsertByDate(SortByDate(SubSeq(list, 1, Len(list) - 1)),
                      list[Len(list)])

\* the single-branch collection cut to maxCommits before the merge filter
\* (a mutant)
CollectSingleSliceFirst(listed, includeMerges, maxCommits) ==
    LET cut == Slice0(listed, Min(maxCommits, Len(listed)))
    IN IF includeMerges THEN cut ELSE FilterNonMerges(cut)
\* the single-branch collection:
\* (includeMerges ? listed : listed.filter(c => !isMergeCommit(c)))
\*     .slice(0, Math.min(maxCommits, listed.length))
CollectSingle(listed, includeMerges, maxCommits) ==
    Slice0(IF includeMerges THEN listed ELSE FilterNonMerges(listed),
           Min(maxCommits, Len(listed)))

\* the ANY collection as one function of the upstream lists: the loop over
\* the branch names with its break, then the sort
RECURSIVE CollectSeen(_, _, _, _, _)
CollectSeen(seen, names, lists, includeMerges, maxCommits) ==
    IF names = <<>> THEN seen
    ELSE LET next == InsertList(seen, lists[Head(names)], includeMerges,
                                maxCommits)
         IN IF Len(next) >= maxCommits THEN next
            ELSE CollectSeen(next, Tail(names), lists, includeMerges,
                             maxCommits)
CollectAny(names, lists, includeMerges, maxCommits) ==
    SortByDate(CollectSeen(<<>>, names, lists, includeMerges, maxCommits))

\* ------------------------------------------------------------ parseRepo
\* the repo references a request is made with
RepoInputs ==
    {"", "octo/demo", "https://github.com/octo/demo.git", "octo",
     "octo/demo/extra"}
\* parseRepo taking a lone owner for a repository (a mutant)
parseRepoLenient(input) ==
    CASE input = "octo/demo" -> [ok |-> TRUE, owner |-> "octo", repo |-> "demo"]
      [] input = "https://github.com/octo/demo.git" ->
            [ok |-> TRUE, owner |-> "octo", repo |-> "demo"]
      [] input = "octo" -> [ok |-> TRUE, owner |-> "octo", repo |-> ""]
      [] OTHER -> [ok |-> FALSE, owner |-> "", repo |-> ""]
\* parseRepo: [ok |-> FALSE] is the thrown 'Invalid repo format' error.
parseRepo(input) ==
    CASE input = "octo/demo" -> [ok |-> TRUE, owner |-> "octo", repo |-> "demo"]
      [] input = "https://github.com/octo/demo.git" ->
            [ok |-> TRUE, owner |-> "octo", repo |-> "demo"]
      [] OTHER -> [ok |-> FALSE, owner |-> "", repo |-> ""]
InvalidRepoMessage == "Invalid repo format. Use \"owner/repo\" or a GitHub URL."

\* ------------------------------------------------------------ state
VARIABLES
    OPENAI_MODEL,   \* the configured model name, a sequence of characters
    branchNames,    \* upstream: the branches listBranches returns, in order
    commitLists,    \* upstream: branch name -> the shas listCommits returns
    modelOutputs,   \* upstream: the texts the model may answer a commit with
    req,            \* the body of the POST /api/analyze request
    pc,             \* where the handler is: the call it awaits, or its end
    bIdx,           \* ANY collection: index of the branch being listed
    seen,           \* ANY collection: the keys of the seen Map, in order
    commits,        \* the collected commits (shas)
    idx,            \* enrich loop: the i of the commit in progress, 1-based
    results,        \* the results array
    texts,          \* output_text of each per-commit model call that returned
    aggFiles, aggAdd, aggDel,
    typeCounts, riskCounts, areaCounts,
    response,       \* what was sent on res
    channels,       \* the registry: id -> [res, buffer]
    conns,          \* the connections to GET /api/progress/:id: [id, open]
    sse,            \* what was written on each progress connection
    calls,          \* the collaborator calls issued, in order
    hist            \* history: the registry operations invoked, in order

vars ==
    <<OPENAI_MODEL, branchNames, commitLists, modelOutputs, req, pc, bIdx,
      seen, commits, idx, results, texts, aggFiles, aggAdd, aggDel,
      typeCounts, riskCounts, areaCounts, response, channels, conns, sse,
      calls, hist>>

\* ------------------------------------------------------------ progress
Msg(kind, s, a, b, sha) == [kind |-> kind, s |-> s, a |-> a, b |-> b, sha |-> sha]
NoChannel == [res |-> 0, buffer |-> <<>>]
\* channels.set(id, ch)
ChannelsSet(chs, id, ch) ==
    [k \in DOMAIN chs \cup {id} |-> IF k = id THEN ch ELSE chs[k]]
\* an entry of the history: send(id, msg), done(id), subscribe(id) by
\* connection conn, close of connection conn
Op(op, id, msg, conn) == [op |-> op, id |-> id, msg |-> msg, conn |-> conn]
MessageEvent(text) == [event |-> "message", msg |-> text]
DoneEvent == [event |-> "done", msg |-> Msg("done", "", 0, 0, 0)]
ReadyEvent == [event |-> "ready", msg |-> Msg("ready", "", 0, 0, 0)]
\* progressSend with the line put at the head of the buffer (a mutant)
progressSendUnshift(R, id, text) ==
    IF id = "" THEN R
    ELSE LET ch == IF id \in DOMAIN R.channels THEN R.channels[id]
                   ELSE NoChannel
             logged == Append(R.hist, Op("send", id, text, 0))
         IN IF ch.res # 0
            THEN [channels |-> ChannelsSet(R.channels, id, ch),
                  sse |-> [R.sse EXCEPT ![ch.res] =
                              Append(@, MessageEvent(text))],
                  hist |-> logged]
            ELSE LET pushed == <<text>> \o ch.buffer
                     buffer == IF Len(pushed) > BufferCap THEN Tail(pushed)
                               ELSE pushed
                 IN [channels |->
                        ChannelsSet(R.channels, id, [ch EXCEPT !.buffer = buffer]),
                     sse |-> R.sse,
                     hist |-> logged]
\* progressSend(id, text) on the registry R = [channels, sse, hist]
progressSend(R, id, text) ==
    IF id = "" THEN R
    ELSE LET ch == IF id \in DOMAIN R.channels THEN R.channels[id]
                   ELSE NoChannel
             logged == Append(R.hist, Op("send", id, text, 0))
         IN IF ch.res # 0
            THEN [channels |-> ChannelsSet(R.channels, id, ch),
                  sse |-> [R.sse EXCEPT ![ch.res] =
                              Append(@, MessageEvent(text))],
                  hist |-> logged]
            ELSE LET pushed == Append(ch.buffer, text)
                     buffer == IF Len(pushed) > BufferCap THEN Tail(pushed)
                               ELSE pushed
                 IN [channels |->
                        ChannelsSet(R.channels, id, [ch EXCEPT !.buffer = buffer]),
                     sse |-> R.sse,
                     hist |-> logged]
\* progressDone writing its marker and leaving the subscriber attached to a
\* channel emptied of its buffer (a mutant)
progressDoneStaysAttached(R, id) ==
    LET live == id \in DOMAIN R.channels /\ R.channels[id].res # 0
    IN [channels |-> IF live
                     THEN [R.channels EXCEPT ![id].buffer = <<>>]
                     ELSE [k \in DOMAIN R.channels \ {id} |-> R.channels[k]],
        sse |-> IF live
                THEN [R.sse EXCEPT ![R.channels[id].res] = Append(@, DoneEvent)]
                ELSE R.sse,
        hist |-> IF id = "" THEN R.hist
                 ELSE Append(R.hist, Op("done", id, Msg("done", "", 0, 0, 0), 0))]
\* progressDone ending every channel of the registry (a mutant)
progressDoneClearsAll(R, id) ==
    [channels |-> <<>>,
     sse |-> [c \in DOMAIN R.sse |->
                 IF \E k \in DOMAIN R.channels : R.channels[k].res = c
                 THEN Append(R.sse[c], DoneEvent) ELSE R.sse[c]],
     hist |-> IF id = "" THEN R.hist
              ELSE Append(R.hist, Op("done", id, Msg("done", "", 0, 0, 0), 0))]
\* progressDone without channels.delete (a mutant)
progressDoneKeepsChannel(R, id) ==
    LET live == id \in DOMAIN R.channels /\ R.channels[id].res # 0
    IN [channels |-> R.channels,
        sse |-> IF live
                THEN [R.sse EXCEPT ![R.channels[id].res] = Append(@, DoneEvent)]
                ELSE R.sse,
        hist |-> IF id = "" THEN R.hist
                 ELSE Append(R.hist, Op("done", id, Msg("done", "", 0, 0, 0), 0))]
\* progressDone(id); channels.delete(undefined) when the request gave no id
progressDone(R, id) ==
    LET live == id \in DOMAIN R.channels /\ R.channels[id].res # 0
    IN [channels |-> [k \in DOMAIN R.channels \ {id} |-> R.channels[k]],
        sse |-> IF live
                THEN [R.sse EXCEPT ![R.channels[id].res] = Append(@, DoneEvent)]
                ELSE R.sse,
        hist |-> IF id = "" THEN R.hist
                 ELSE Append(R.hist, Op("done", id, Msg("done", "", 0, 0, 0), 0))]
Registry == [channels |-> channels, sse |-> sse, hist |-> hist]
\* const progress = (msg) => progressSend(requestId, msg)
progress(R, text) == progressSend(R, req.requestId, text)

\* ------------------------------------------------------------ the handler
NoResponse ==
    [status |-> 0, error |-> "", summaryMarkdown |-> "", commits |-> <<>>,
     aggregate |-> <<>>]
Placeholder == "# Period Summary\n(No content)"
\* a collaborator call as the log keeps it
Call(op, branch, ref, temperature, bullets) ==
    [op |-> op, branch |-> branch, ref |-> ref, temperature |-> temperature,
     bullets |-> bullets]
ModelCall(op, ref, bullets) ==
    Call(op, "", ref, createOpenAIResponseOpts(OPENAI_MODEL).temperature, bullets)
\* the errors a collaborator call is rejected with
Errors ==
    {[status |-> 404, message |-> "Not Found"],
     [status |-> 0, message |-> "socket hang up"]}
NullTypeError == "Cannot read properties of null (reading 'change_type')"
ForEachTypeError == "(ai.areas || []).forEach is not a function"

\* the catch block without its progress line (a mutant)
CatchSilent(R, message) ==
    LET R2 == progressDone(R, req.requestId)
    IN /\ channels' = R2.channels
       /\ sse' = R2.sse
       /\ hist' = R2.hist
       /\ response' = [NoResponse EXCEPT !.status = 500, !.error = message]
       /\ pc' = "failed"

\* the catch block answering with the commits enriched so far (a mutant)
CatchPartial(R, message) ==
    LET R2 == progressDone(progress(R, Msg("Error", message, 0, 0, 0)),
                           req.requestId)
    IN /\ channels' = R2.channels
       /\ sse' = R2.sse
       /\ hist' = R2.hist
       /\ response' = [NoResponse EXCEPT !.status = 500, !.error = message,
                                         !.commits = results]
       /\ pc' = "failed"

\* the catch block: progress(`Error: ...`); progressDone(requestId);
\* res.status(500).json({ error })
Catch(R, message) ==
    LET R2 == progressDone(progress(R, Msg("Error", message, 0, 0, 0)),
                           req.requestId)
    IN /\ channels' = R2.channels
       /\ sse' = R2.sse
       /\ hist' = R2.hist
       /\ response' = [NoResponse EXCEPT !.status = 500, !.error = message]
       /\ pc' = "failed"

\* the bullets of the rollup prompt, newest result first (a mutant)
BulletsReversed(res) ==
    [k \in 1..Len(res) |->
        [sha |-> res[Len(res) + 1 - k].sha,
         summary |-> IF res[Len(res) + 1 - k].ai.summary \in {Undefined, ""}
                     THEN "(no summary)" ELSE res[Len(res) + 1 - k].ai.summary]]
\* the bullets of buildPeriodPrompt: c.ai?.summary || '(no summary)'
Bullets(res) ==
    [k \in 1..Len(res) |->
        [sha |-> res[k].sha,
         summary |-> IF res[k].ai.summary \in {Undefined, ""}
                     THEN "(no summary)" ELSE res[k].ai.summary]]

\* the enrich loop issuing each detail fetch a second time (a mutant)
EnterLoopRetry(R, cs, k, res) ==
    IF k < Len(cs)
    THEN LET R2 == progress(R, Msg("Fetching", "", k + 1, Len(cs), cs[k + 1]))
             fetch == Call("getCommit", "", cs[k + 1], "", <<>>)
         IN /\ channels' = R2.channels
            /\ sse' = R2.sse
            /\ hist' = R2.hist
            /\ calls' = Append(Append(calls, fetch), fetch)
            /\ idx' = k + 1
            /\ pc' = "getCommit"
    ELSE LET R2 == progress(R, Msg("Generating period summary", "", 0, 0, 0))
         IN /\ channels' = R2.channels
            /\ sse' = R2.sse
            /\ hist' = R2.hist
            /\ calls' = Append(calls, ModelCall("rollup", 0, Bullets(res)))
            /\ idx' = k
            /\ pc' = "rollup"

\* the enrich loop given up once a subscriber of the run has disconnected
\* (a mutant)
EnterLoopAbortOnClose(R, cs, k, res) ==
    IF k < Len(cs)
          /\ \A c \in 1..Len(conns) :
                conns[c].id = req.requestId => conns[c].open
    THEN LET R2 == progress(R, Msg("Fetching", "", k + 1, Len(cs), cs[k + 1]))
         IN /\ channels' = R2.channels
            /\ sse' = R2.sse
            /\ hist' = R2.hist
            /\ calls' = Append(calls, Call("getCommit", "", cs[k + 1], "", <<>>))
            /\ idx' = k + 1
            /\ pc' = "getCommit"
    ELSE LET R2 == progress(R, Msg("Generating period summary", "", 0, 0, 0))
         IN /\ channels' = R2.channels
            /\ sse' = R2.sse
            /\ hist' = R2.hist
            /\ calls' = Append(calls, ModelCall("rollup", 0, Bullets(res)))
            /\ idx' = k
            /\ pc' = "rollup"

\* the enrich loop tagging its Fetching line from zero (a mutant)
EnterLoopZeroBased(R, cs, k, res) ==
    IF k < Len(cs)
    THEN LET R2 == progress(R, Msg("Fetching", "", k, Len(cs), cs[k + 1]))
         IN /\ channels' = R2.channels
            /\ sse' = R2.sse
            /\ hist' = R2.hist
            /\ calls' = Append(calls, Call("getCommit", "", cs[k + 1], "", <<>>))
            /\ idx' = k + 1
            /\ pc' = "getCommit"
    ELSE LET R2 == progress(R, Msg("Generating period summary", "", 0, 0, 0))
         IN /\ channels' = R2.channels
            /\ sse' = R2.sse
            /\ hist' = R2.hist
            /\ calls' = Append(calls, ModelCall("rollup", 0, Bullets(res)))
            /\ idx' = k
            /\ pc' = "rollup"

\* the enrich loop fetching the details of the next two commits at once
\* (a mutant)
EnterLoopPrefetch(R, cs, k, res) ==
    IF k < Len(cs)
    THEN LET R2 == progress(R, Msg("Fetching", "", k + 1, Len(cs), cs[k + 1]))
             first == Append(calls, Call("getCommit", "", cs[k + 1], "", <<>>))
         IN /\ channels' = R2.channels
            /\ sse' = R2.sse
            /\ hist' = R2.hist
            /\ calls' = IF k + 1 < Len(cs)
                        THEN Append(first,
                                    Call("getCommit", "", cs[k + 2], "", <<>>))
                        ELSE first
            /\ idx' = k + 1
            /\ pc' = "getCommit"
    ELSE LET R2 == progress(R, Msg("Generating period summary", "", 0, 0, 0))
         IN /\ channels' = R2.channels
            /\ sse' = R2.sse
            /\ hist' = R2.hist
            /\ calls' = Append(calls, ModelCall("rollup", 0, Bullets(res)))
            /\ idx' = k
            /\ pc' = "rollup"

\* The enrich loop at the test of its condition, k commits done: the progress
\* line and the detail fetch of the next commit, or, after the loop, the
\* progress line and the rollup call.
EnterLoop(R, cs, k, res) ==
    IF k < Len(cs)
    THEN LET R2 == progress(R, Msg("Fetching", "", k + 1, Len(cs), cs[k + 1]))
         IN /\ channels' = R2.channels
            /\ sse' = R2.sse
            /\ hist' = R2.hist
            /\ calls' = Append(calls, Call("getCommit", "", cs[k + 1], "", <<>>))
            /\ idx' = k + 1
            /\ pc' = "getCommit"
    ELSE LET R2 == progress(R, Msg("Generating period summary", "", 0, 0, 0))
         IN /\ channels' = R2.channels
            /\ sse' = R2.sse
            /\ hist' = R2.hist
            /\ calls' = Append(calls, ModelCall("rollup", 0, Bullets(res)))
            /\ idx' = k
            /\ pc' = "rollup"

\* what the handler reads and never writes
envVars == <<OPENAI_MODEL, branchNames, commitLists, modelOutputs, req, conns>>
aggVars == <<aggFiles, aggAdd, aggDel, typeCounts, riskCounts, areaCounts>>
MissingFieldsMessage == "repo, since, and until are required"

\* POST /api/analyze from its start to the first awaited call: the
\* validation, parseRepo, and the first progress lines.
Validate ==
    /\ pc = "start"
    /\ IF req.repo = "" \/ req.since = "" \/ req.until = ""
       THEN /\ response' = [NoResponse EXCEPT !.status = 400,
                                              !.error = MissingFieldsMessage]
            /\ pc' = "failed"
            /\ UNCHANGED <<channels, sse, hist, calls>>
       ELSE LET R1 == progress(Registry,
                               Msg("Starting analysis", req.repo, 0, 0, 0))
            IN IF ~parseRepo(req.repo).ok
               THEN /\ Catch(R1, InvalidRepoMessage)
                    /\ UNCHANGED calls
               ELSE IF req.branch = ANY_BRANCH
               THEN LET R2 == progress(R1, Msg("Loading branches", "", 0, 0, 0))
                    IN /\ channels' = R2.channels
                       /\ sse' = R2.sse
                       /\ hist' = R2.hist
                       /\ calls' = Append(calls,
                                          Call("listBranches", "", 0, "", <<>>))
                       /\ pc' = "listBranches"
                       /\ UNCHANGED response
               ELSE LET shaParam == IF req.branch \in {Undefined, ""}
                                    THEN DEFAULT_BRANCH ELSE req.branch
                        R2 == progress(R1, Msg("Listing commits", shaParam,
                                               0, 0, 0))
                    IN /\ channels' = R2.channels
                       /\ sse' = R2.sse
                       /\ hist' = R2.hist
                       /\ calls' = Append(calls,
                                          Call("listCommits", shaParam, 0, "", <<>>))
                       /\ pc' = "listCommits"
                       /\ UNCHANGED response
    /\ UNCHANGED <<envVars, aggVars, bIdx, seen, commits, idx, results, texts>>

\* The end of the ANY collection: Array.from(seen.values()), the sort, the
\* progress line, and the enrich loop up to its first awaited call.
FinishAny(R, finalSeen) ==
    LET cs == SortByDate(finalSeen)
        R2 == progress(R, Msg("Aggregated", "", Len(cs), req.maxCommits, 0))
    IN /\ commits' = cs
       /\ EnterLoop(R2, cs, 0, results)

\* listBranches returned: the names, and the first listCommits call of the
\* loop over them.
ListBranchesReturn ==
    /\ pc = "listBranches"
    /\ LET names == branchNames
           R1 == progress(Registry, Msg("Found branches", "", Len(names), 0, 0))
       IN IF names = <<>>
          THEN /\ FinishAny(R1, seen)
               /\ UNCHANGED bIdx
          ELSE LET R2 == progress(R1, Msg("Listing commits", names[1], 0, 0, 0))
               IN /\ channels' = R2.channels
                  /\ sse' = R2.sse
                  /\ hist' = R2.hist
                  /\ calls' = Append(calls,
                                     Call("listCommits", names[1], 0, "", <<>>))
                  /\ bIdx' = 1
                  /\ pc' = "listCommitsAny"
                  /\ UNCHANGED <<commits, idx>>
    /\ UNCHANGED <<envVars, aggVars, seen, results, texts, response>>

\* listCommits of branch bIdx returned: the inner loop over its list, the
\* break tests, and the next listCommits call or the end of the collection.
AnyListCommitsReturn ==
    /\ pc = "listCommitsAny"
    /\ LET list == commitLists[branchNames[bIdx]]
           next == InsertList(seen, list, req.includeMerges, req.maxCommits)
       IN /\ seen' = next
          /\ IF Len(next) >= req.maxCommits \/ bIdx = Len(branchNames)
             THEN /\ FinishAny(Registry, next)
                  /\ UNCHANGED bIdx
             ELSE LET bname == branchNames[bIdx + 1]
                      R2 == progress(Registry,
                                     Msg("Listing commits", bname, 0, 0, 0))
                  IN /\ channels' = R2.channels
                     /\ sse' = R2.sse
                     /\ hist' = R2.hist
                     /\ calls' = Append(calls,
                                        Call("listCommits", bname, 0, "", <<>>))
                     /\ bIdx' = bIdx + 1
                     /\ pc' = "listCommitsAny"
                     /\ UNCHANGED <<commits, idx>>
    /\ UNCHANGED <<envVars, aggVars, results, texts, response>>

\* listCommits of the single branch returned: filter, slice, progress line,
\* and the enrich loop up to its first awaited call.
ListCommitsReturn ==
    /\ pc = "listCommits"
    /\ LET shaParam == IF req.branch \in {Undefined, ""}
                       THEN DEFAULT_BRANCH ELSE req.branch
           listed == commitLists[shaParam]
           cs == CollectSingle(listed, req.includeMerges, req.maxCommits)
           R2 == progress(Registry, Msg("Found commits", "", Len(cs), 0, 0))
       IN /\ commits' = cs
          /\ EnterLoop(R2, cs, 0, results)
    /\ UNCHANGED <<envVars, aggVars, bIdx, seen, results, texts, response>>

\* getCommit of commit idx returned: the files, the running totals, the
\* progress line and the per-commit model call.
GetCommitReturn ==
    /\ pc = "getCommit"
    /\ LET c == commits[idx]
           files == FilesOf(c)
           R2 == progress(Registry,
                          Msg("Summarizing", "", idx, Len(commits), c))
       IN /\ aggFiles' = aggFiles + Len(files)
          /\ aggAdd' = aggAdd + AdditionsOf(c)
          /\ aggDel' = aggDel + DeletionsOf(c)
          /\ channels' = R2.channels
          /\ sse' = R2.sse
          /\ hist' = R2.hist
          /\ calls' = Append(calls, ModelCall("summarize", c, <<>>))
          /\ pc' = "summarize"
    /\ UNCHANGED <<envVars, typeCounts, riskCounts, areaCounts, bIdx, seen,
                   commits, idx, results, texts, response>>

\* The per-commit model call returned `text`: summarizeCommit's parse or
\* fallback, the counters, results.push, and the loop up to the next awaited
\* call. Reading a property of null, and forEach on a non-array, throw a
\* TypeError into the handler's catch.
SummarizeReturn(text) ==
    /\ pc = "summarize"
    /\ LET c == commits[idx]
           ai == summarizeCommit(text, FilesOf(c))
           types == IncrementCount(typeCounts, ToPropertyKey(ai.change_type))
           risks == IncrementCount(riskCounts, ToPropertyKey(ai.risk))
           pushed == Append(results, [sha |-> c, ai |-> ai])
       IN /\ texts' = Append(texts, text)
          /\ IF ai.type = "null"
             THEN /\ Catch(Registry, NullTypeError)
                  /\ UNCHANGED <<typeCounts, riskCounts, areaCounts, results,
                                 calls, idx>>
             ELSE IF ai.areasType = "string"
             THEN /\ typeCounts' = types
                  /\ riskCounts' = risks
                  /\ Catch(Registry, ForEachTypeError)
                  /\ UNCHANGED <<areaCounts, results, calls, idx>>
             ELSE /\ typeCounts' = types
                  /\ riskCounts' = risks
                  /\ areaCounts' = CountAreas(areaCounts, ai.areas)
                  /\ results' = pushed
                  /\ EnterLoop(Registry, commits, idx, pushed)
                  /\ UNCHANGED response
    /\ UNCHANGED <<envVars, aggFiles, aggAdd, aggDel, bIdx, seen, commits>>

\* the texts the rollup call may return
RollupTexts == {Undefined, "", TextBlank, RollupDocument, RollupPadded}
TopAreasMax == 10
\* The rollup call returned `text`: the placeholder on empty output, the
\* final progress line, progressDone, and the report.
RollupReturn(text) ==
    /\ pc = "rollup"
    /\ LET trimmed == IF text = Undefined THEN "" ELSE Trim(text)
           aggregate ==
               [count |-> Len(results), files |-> aggFiles,
                additions |-> aggAdd, deletions |-> aggDel,
                typeCounts |-> typeCounts, riskCounts |-> riskCounts,
                topAreas |-> Slice0(sortedAreas(areaCounts), TopAreasMax)]
           R2 == progressDone(progress(Registry, Msg("Done in", "", 0, 0, 0)),
                              req.requestId)
       IN /\ channels' = R2.channels
          /\ sse' = R2.sse
          /\ hist' = R2.hist
          /\ response' =
                [status |-> 200, error |-> "",
                 summaryMarkdown |-> IF trimmed = "" THEN Placeholder
                                     ELSE trimmed,
                 commits |-> results, aggregate |-> aggregate]
          /\ pc' = "done"
    /\ UNCHANGED <<envVars, aggVars, bIdx, seen, commits, idx, results, texts,
                   calls>>

\* The awaited collaborator call is rejected: the catch block.
CollaboratorFails(err) ==
    /\ pc \in {"listBranches", "listCommitsAny", "listCommits", "getCommit",
               "summarize", "rollup"}
    /\ Catch(Registry, err.message)
    /\ UNCHANGED <<envVars, aggVars, bIdx, seen, commits, idx, results, texts,
                   calls>>

Next ==
    \/ Validate
    \/ ListBranchesReturn
    \/ AnyListCommitsReturn
    \/ ListCommitsReturn
    \/ GetCommitReturn
    \/ \E text \in modelOutputs : SummarizeReturn(text)
    \/ \E text \in RollupTexts : RollupReturn(text)
    \/ \E err \in Errors : CollaboratorFails(err)

\* ------------------------------------------------------------ initial states
Branches == Range(BranchOrder)
Since == "2025-01-01T00:00:00Z"
Until == "2025-01-31T23:59:59Z"
\* maxCommits = 60 when the request gives none
DefaultMaxCommits == 60
\* the values of process.env.OPENAI_MODEL; <<>> is unset
ModelEnvs ==
    {<<>>,
     <<"g", "p", "t", "-", "5">>,
     <<"g", "p", "t", "-", "5", "-", "m", "i", "n", "i">>,
     <<"g", "p", "t", "-", "5", "o">>,
     <<"G", "P", "T", "-", "5">>,
     <<"G", "p", "t", "-", "5", "-", "M", "i", "n", "i">>,
     <<"m", "y", "-", "g", "p", "t", "-", "5">>,
     <<"g", "p", "t", "5">>,
     <<"g", "p", "t", "-", "4", ".", "5">>,
     <<"o", "3", "-", "m", "i", "n", "i">>}

Request(repo, since, until, branch, includeMerges, maxCommits, requestId) ==
    [repo |-> repo, since |-> since, until |-> until, branch |-> branch,
     includeMerges |-> includeMerges, maxCommits |-> maxCommits,
     requestId |-> requestId]

\* the state of the process when a request arrives
InitHandler ==
    /\ pc = "start"
    /\ bIdx = 0
    /\ seen = <<>>
    /\ commits = <<>>
    /\ idx = 0
    /\ results = <<>>
    /\ texts = <<>>
    /\ aggFiles = 0
    /\ aggAdd = 0
    /\ aggDel = 0
    /\ typeCounts = <<>>
    /\ riskCounts = <<>>
    /\ areaCounts = <<>>
    /\ response = NoResponse
    /\ channels = <<>>
    /\ conns = <<>>
    /\ sse = <<>>
    /\ calls = <<>>
    /\ hist = <<>>

\* the branches whose commit lists a request reads
BranchesRead(branch, names) ==
    IF branch = ANY_BRANCH THEN Range(names)
    ELSE IF branch \in {Undefined, ""} THEN {DEFAULT_BRANCH} ELSE {branch}

\* Requests over every upstream content: any branch enumeration and commit
\* lists (lists may share commits), every includeMerges and maxCommits.
InitCollect ==
    /\ OPENAI_MODEL = DefaultModel
    /\ modelOutputs = {TextFeat}
    /\ \E n \in 0..Len(BranchOrder) : branchNames = SubSeq(BranchOrder, 1, n)
    /\ \E branch \in {ANY_BRANCH, Undefined, "dev"},
          includeMerges \in BOOLEAN, maxCommits \in 0..MaxCap :
          /\ branch # ANY_BRANCH => branchNames = BranchOrder
          /\ commitLists \in [Branches -> InjSeqs(SHAS)]
          /\ \A b \in Branches \ BranchesRead(branch, branchNames) :
                commitLists[b] = <<>>
          /\ req = Request("octo/demo", Since, Until, branch, includeMerges,
                           maxCommits, "r1")

\* Requests over every answer of the model: one branch with all the commits.
InitEnrich ==
    /\ OPENAI_MODEL = DefaultModel
    /\ modelOutputs = ModelTexts
    /\ branchNames = BranchOrder
    /\ commitLists = [b \in Branches |->
                         IF b = DEFAULT_BRANCH THEN [k \in 1..MaxSha |-> k]
                         ELSE <<>>]
    /\ req = Request("octo/demo", Since, Until, Undefined, TRUE,
                     DefaultMaxCommits, "r1")

\* Requests under every configured model name.
InitModel ==
    /\ \E env \in ModelEnvs : OPENAI_MODEL = ModelFromEnv(env)
    /\ modelOutputs = {TextFeat}
    /\ branchNames = BranchOrder
    /\ commitLists = [b \in Branches |->
                         IF b = DEFAULT_BRANCH THEN <<1>> ELSE <<>>]
    /\ req = Request("octo/demo", Since, Until, Undefined, FALSE,
                     DefaultMaxCommits, "r1")

\* Requests with every combination of present and absent fields.
InitFields ==
    /\ OPENAI_MODEL = DefaultModel
    /\ modelOutputs = {TextFeat}
    /\ branchNames = BranchOrder
    /\ commitLists = [b \in Branches |->
                         IF b = DEFAULT_BRANCH THEN <<1>> ELSE <<>>]
    /\ \E repo \in RepoInputs, since \in {"", Since}, until \in {"", Until},
          branch \in {ANY_BRANCH, Undefined}, requestId \in {"", "r1"} :
          req = Request(repo, since, until, branch, FALSE, DefaultMaxCommits,
                        requestId)

Init ==
    /\ InitHandler
    /\ InitCollect \/ InitEnrich \/ InitModel \/ InitFields

Spec == Init /\ [][Next]_vars

\* ------------------------------------------------- the progress endpoint
\* connections opened to GET /api/progress/:id are at most MaxConn
MaxConn == 2
\* the ids observers ask for
ProgressIds == {"r1", "r2"}
NoMsg == Msg("", "", 0, 0, 0)
handlerVars ==
    <<OPENAI_MODEL, branchNames, commitLists, modelOutputs, req, pc, bIdx,
      seen, commits, idx, results, texts, aggVars, response, calls>>

\* the attach that keeps an earlier subscriber (a mutant)
SubscribeChannelKeepOld(ch, c) == IF ch.res # 0 THEN ch ELSE [ch EXCEPT !.res = c]
\* ch.res = res
SubscribeChannel(ch, c) == [ch EXCEPT !.res = c]
\* the replay of the buffer from its newest line to its oldest (a mutant)
ReplayStreamNewestFirst(buffer) ==
    [k \in 1..Len(buffer) |-> MessageEvent(buffer[Len(buffer) + 1 - k])]
        \o <<ReadyEvent>>
\* the ready marker written before the replay (a mutant)
ReplayStreamReadyFirst(buffer) ==
    <<ReadyEvent>> \o [k \in 1..Len(buffer) |-> MessageEvent(buffer[k])]
\* for (const line of ch.buffer) res.write(data); res.write(`event: ready`)
ReplayStream(buffer) ==
    [k \in 1..Len(buffer) |-> MessageEvent(buffer[k])] \o <<ReadyEvent>>
\* the close handler that detaches whoever is attached (a mutant)
CloseChannelAnyone(chs, id, c) ==
    IF id \in DOMAIN chs THEN [chs EXCEPT ![id].res = 0] ELSE chs
\* the close handler that drops the channel (a mutant)
CloseChannelDeletes(chs, id, c) ==
    IF id \in DOMAIN chs /\ chs[id].res = c
    THEN [k \in DOMAIN chs \ {id} |-> chs[k]] ELSE chs
\* if (channels.get(id)?.res === res) channels.get(id).res = null
CloseChannel(chs, id, c) ==
    IF id \in DOMAIN chs /\ chs[id].res = c
    THEN [chs EXCEPT ![id].res = 0] ELSE chs

\* GET /api/progress/:id on a new connection: attach, replay, ready. (The
\* 15 s ping writes an SSE comment, which is no event; it is left out.)
Subscribe(id) ==
    /\ Len(conns) < MaxConn
    /\ LET c == Len(conns) + 1
           ch == IF id \in DOMAIN channels THEN channels[id] ELSE NoChannel
       IN /\ conns' = Append(conns, [id |-> id, open |-> TRUE])
          /\ channels' = ChannelsSet(channels, id, SubscribeChannel(ch, c))
          /\ sse' = Append(sse, ReplayStream(ch.buffer))
          /\ hist' = Append(hist, Op("subscribe", id, NoMsg, c))
    /\ UNCHANGED handlerVars

\* req.on('close') of connection c
Close(c) ==
    /\ conns[c].open
    /\ conns' = [conns EXCEPT ![c].open = FALSE]
    /\ channels' = CloseChannel(channels, conns[c].id, c)
    /\ hist' = Append(hist, Op("close", conns[c].id, NoMsg, c))
    /\ UNCHANGED <<sse, handlerVars>>

\* A run observed: the handler, and observers that come and go.
NextObserved ==
    \/ Next
    \/ Subscribe("r1")
    \/ \E c \in 1..Len(conns) : Close(c)

\* a request with or without its fields, on a repository of one commit
InitObserved ==
    /\ InitHandler
    /\ OPENAI_MODEL = DefaultModel
    /\ modelOutputs = {TextFeat}
    /\ branchNames = BranchOrder
    /\ commitLists = [b \in Branches |->
                         IF b = DEFAULT_BRANCH THEN <<1>> ELSE <<>>]
    /\ \E repo \in {"octo/demo", "octo"}, since \in {"", Since},
          branch \in {ANY_BRANCH, Undefined}, requestId \in {"", "r1"} :
          req = Request(repo, since, Until, branch, FALSE, DefaultMaxCommits,
                        requestId)

SpecObserved == InitObserved /\ [][NextObserved]_vars

\* ------------------------------------------------- the registry on its own
\* The registry under any caller: progressSend and progressDone invoked for
\* any id in any order, observers coming and going. No request is in
\* flight; the lines sent are numbered in send order.
\* the operations invoked (send, done, subscribe, close) are at most MaxOps
MaxOps == 5
\* the unobserved channel is sent BufferCap + MaxOver lines
MaxOver == 2
Sends == {k \in 1..Len(hist) : hist[k].op = "send"}
Dones == {k \in 1..Len(hist) : hist[k].op = "done"}
Line(n) == Msg("line", "", n, 0, 0)

\* progressSend(id, line) with the next line
Send(id) ==
    /\ LET R2 == progressSend(Registry, id, Line(Cardinality(Sends) + 1))
       IN /\ channels' = R2.channels
          /\ sse' = R2.sse
          /\ hist' = R2.hist
    /\ UNCHANGED <<conns, handlerVars>>

RegSend(id) ==
    /\ Len(hist) < MaxOps
    /\ Send(id)

\* progressDone(id)
RegDone(id) ==
    /\ Len(hist) < MaxOps
    /\ LET R2 == progressDone(Registry, id)
       IN /\ channels' = R2.channels
          /\ sse' = R2.sse
          /\ hist' = R2.hist
    /\ UNCHANGED <<conns, handlerVars>>

\* the process with no request in flight
InitRegistry ==
    /\ OPENAI_MODEL = DefaultModel
    /\ modelOutputs = {}
    /\ branchNames = <<>>
    /\ commitLists = [b \in Branches |-> <<>>]
    /\ req = Request("", "", "", Undefined, FALSE, DefaultMaxCommits, "")
    /\ pc = "idle"
    /\ bIdx = 0
    /\ seen = <<>>
    /\ commits = <<>>
    /\ idx = 0
    /\ results = <<>>
    /\ texts = <<>>
    /\ aggFiles = 0
    /\ aggAdd = 0
    /\ aggDel = 0
    /\ typeCounts = <<>>
    /\ riskCounts = <<>>
    /\ areaCounts = <<>>
    /\ response = NoResponse
    /\ channels = <<>>
    /\ conns = <<>>
    /\ sse = <<>>
    /\ calls = <<>>
    /\ hist = <<>>

RegSubscribe(id) ==
    /\ Len(hist) < MaxOps
    /\ Subscribe(id)

RegClose(c) ==
    /\ Len(hist) < MaxOps
    /\ Close(c)

NextRegistry ==
    \/ \E id \in ProgressIds : RegSend(id)
    \/ \E id \in ProgressIds : RegDone(id)
    \/ \E id \in ProgressIds : RegSubscribe(id)
    \/ \E c \in 1..Len(conns) : RegClose(c)

SpecRegistry == InitRegistry /\ [][NextRegistry]_vars

\* progressSend(id, Line(from)); ...; progressSend(id, Line(to))
RECURSIVE SendLines(_, _, _, _)
SendLines(R, id, from, to) ==
    IF to < from THEN R
    ELSE IF from = to THEN progressSend(R, id, Line(from))
    ELSE LET mid == (from + to) \div 2
             first == SendLines(R, id, from, mid)
         IN \* the test is always true: it has the first half evaluated
            \* before the second
            IF Len(first.hist) >= 0 THEN SendLines(first, id, mid + 1, to)
            ELSE first

\* One channel that no observer ever asks for: a caller sends it one line,
\* or, when the lines sent are a multiple of FloodBurst, FloodBurst lines in
\* a row.
FloodBurst == 500
FloodSend(n) ==
    /\ Cardinality(Sends) + n <= BufferCap + MaxOver
    /\ n > 1 => Cardinality(Sends) % FloodBurst = 0
    /\ LET R2 == SendLines(Registry, "r1", Cardinality(Sends) + 1,
                           Cardinality(Sends) + n)
       IN /\ channels' = R2.channels
          /\ sse' = R2.sse
          /\ hist' = R2.hist
    /\ UNCHANGED <<conns, handlerVars>>

NextFlood == \E n \in {1, FloodBurst} : FloodSend(n)

SpecFlood == InitRegistry /\ [][NextFlood]_vars

\* The collection as one function of the request and the upstream lists, for
\* a given includeMerges: what the run hands to the enrich loop.
CollectFor(includeMerges) ==
    IF req.branch = ANY_BRANCH
    THEN CollectAny(branchNames, commitLists, includeMerges, req.maxCommits)
    ELSE CollectSingle(
             commitLists[IF req.branch \in {Undefined, ""} THEN DEFAULT_BRANCH
                         ELSE req.branch],
             includeMerges, req.maxCommits)

\* ------------------------------------------------------------ properties
AnyPath == req.branch = ANY_BRANCH
\* the collection is over: the handler is in the enrich loop or beyond it
Collected == pc \in {"getCommit", "summarize", "rollup", "done"}
HasTwoParents(sha) == Len(ParentsOf(sha)) >= 2
GetCommitCalls == {k \in 1..Len(calls) : calls[k].op = "getCommit"}
\* the distinct elements of a sequence, in the order of their first occurrence
RECURSIVE FirstOccurrences(_)
FirstOccurrences(list) ==
    IF list = <<>> THEN <<>>
    ELSE LET front == FirstOccurrences(SubSeq(list, 1, Len(list) - 1))
             last == list[Len(list)]
         IN IF last \in Range(front) THEN front ELSE Append(front, last)
RECURSIVE ConcatLists(_)
ConcatLists(names) ==
    IF names = <<>> THEN <<>>
    ELSE commitLists[Head(names)] \o ConcatLists(Tail(names))
\* the upstream commits in the order the collection reads them
UpstreamOrder ==
    IF AnyPath THEN FirstOccurrences(ConcatLists(branchNames))
    ELSE commitLists[IF req.branch \in {Undefined, ""} THEN DEFAULT_BRANCH
                     ELSE req.branch]
NonMerges(list) == {sha \in Range(list) : ~HasTwoParents(sha)}

\* C1: on the ANY-branch path, whatever the branches and their commit lists
\* (lists that share commits included), no two of the collected commits
\* have the same sha.
C1_UniqueShas ==
    AnyPath =>
        \A a, b \in 1..Len(commits) : a # b => commits[a] # commits[b]
\* a finished ANY run over two listed branches that share a collected commit
C1_Witness ==
    /\ AnyPath
    /\ pc = "done"
    /\ bIdx = 2
    /\ Len(commits) >= 2
    /\ \E sha \in Range(commits) :
          /\ sha \in Range(commitLists["main"])
          /\ sha \in Range(commitLists["dev"])

\* C2: for a named branch or ANY, either includeMerges and every positive
\* maxCommits, the collected commits handed to the enrich loop, and the
\* detail fetches made for them, are at most maxCommits.
C2_AtMostMaxCommits ==
    req.maxCommits >= 1 =>
        /\ Len(commits) <= req.maxCommits
        /\ Cardinality(GetCommitCalls) <= req.maxCommits
\* a finished ANY run whose upstream holds more commits than the cap lets in
C2_Witness ==
    /\ AnyPath
    /\ pc = "done"
    /\ req.maxCommits >= 1
    /\ Len(commits) = req.maxCommits
    /\ Len(UpstreamOrder) > req.maxCommits

\* C3: on the ANY-branch path with maxCommits = 0 the collected commits are
\* empty and no commit detail is fetched.
C3_ZeroCapCollectsNothing ==
    (AnyPath /\ req.maxCommits = 0) =>
        /\ commits = <<>>
        /\ GetCommitCalls = {}

\* C4: on both paths, with includeMerges = false no commit with two or more
\* parents is collected; with includeMerges = true merge commits are not
\* filtered: a merge commit among the first maxCommits upstream commits is
\* collected.
C4_MergeFilter ==
    /\ ~req.includeMerges =>
          \A k \in 1..Len(commits) : ~HasTwoParents(commits[k])
    /\ (Collected /\ req.includeMerges) =>
          \A k \in 1..Min(req.maxCommits, Len(UpstreamOrder)) :
              HasTwoParents(UpstreamOrder[k]) =>
                  UpstreamOrder[k] \in Range(commits)
\* a finished run with includeMerges = true that collected a merge commit
\* while the cap cut the upstream list
C4_Witness ==
    /\ pc = "done"
    /\ req.includeMerges
    /\ Len(UpstreamOrder) > req.maxCommits
    /\ \E k \in 1..Len(commits) : HasTwoParents(commits[k])

\* C5 as claimed: the run and the run with includeMerges toggled collect the
\* same non-merge commits, for every maxCommits.
C5_ToggleKeepsNonMerges ==
    Collected => NonMerges(commits) = NonMerges(CollectFor(~req.includeMerges))
\* C5 as amended: every non-merge commit collected with includeMerges = true
\* is collected with includeMerges = false too, and when maxCommits is at
\* least the number of distinct upstream commits the two runs collect the
\* same non-merge commits.
C5_ToggleAmended ==
    Collected =>
        /\ commits = CollectFor(req.includeMerges)
        /\ NonMerges(CollectFor(TRUE)) \subseteq NonMerges(CollectFor(FALSE))
        /\ Len(UpstreamOrder) <= req.maxCommits =>
              NonMerges(CollectFor(TRUE)) = NonMerges(CollectFor(FALSE))
\* a finished run whose cap cuts neither run, with a merge and a non-merge
\* commit upstream
C5_Witness ==
    /\ pc = "done"
    /\ Len(UpstreamOrder) <= req.maxCommits
    /\ \E a, b \in Range(UpstreamOrder) : HasTwoParents(a) /\ ~HasTwoParents(b)
    /\ CollectFor(TRUE) # CollectFor(FALSE)

UnparseableTexts == {Undefined, "", TextBlank, TextProse, TextTruncated}
WrongShapeTexts == {TextNull, TextNumber, TextEmptyObject}
\* the fixed fallback summary for the commit sha
ExactFallback(sha) ==
    [type |-> "object",
     summary |-> "Could not parse summary (model returned non-JSON).",
     change_type |-> "other", areasType |-> "array", areas |-> <<>>,
     risk |-> "low", test_impact |-> "N/A",
     notable_files |-> SubSeq(FilesOf(sha), 1, Min(3, Len(FilesOf(sha))))]

\* C6: when the model's text for a commit is empty or is not JSON,
\* summarizeCommit does not throw and the commit's summary is exactly the
\* fixed fallback, notable_files being the first min(3, n) filenames.
C6_FallbackOnUnparseable ==
    \A j \in 1..Len(texts) :
        texts[j] \in UnparseableTexts =>
            /\ j <= Len(results)
            /\ results[j].ai = ExactFallback(commits[j])
\* a truncated JSON answer for a commit of four files has been absorbed
C6_Witness ==
    \E j \in 1..Len(results) :
        /\ texts[j] = TextTruncated
        /\ Len(FilesOf(commits[j])) = 4

\* C7: when the model's text is valid JSON of the wrong shape (null, a
\* number, an object without change_type, risk, areas), the commit's summary
\* is exactly the fixed fallback.
C7_FallbackOnWrongShape ==
    \A j \in 1..Len(texts) :
        texts[j] \in WrongShapeTexts =>
            /\ j <= Len(results)
            /\ results[j].ai = ExactFallback(commits[j])

\* C8: whatever text the model returns for a commit, the run does not fail
\* because of it: a failed run has absorbed every text it was returned.
C8_NoFailureOnModelText ==
    pc = "failed" => Len(texts) = Len(results)

\* the name holds g, p, t, -, 5 in a row, letters of either case
ContainsGpt5(name) ==
    \E k \in 1..Len(name) - 4 :
        /\ name[k] \in {"g", "G"}
        /\ name[k + 1] \in {"p", "P"}
        /\ name[k + 2] \in {"t", "T"}
        /\ name[k + 3] = "-"
        /\ name[k + 4] = "5"
ModelCalls == {k \in 1..Len(calls) : calls[k].op \in {"summarize", "rollup"}}
\* C9: for every configured model name, every model call (per commit and
\* rollup) omits temperature iff the lower-cased name contains "gpt-5", and
\* carries temperature 0.2 otherwise.
C9_TemperatureIffNotGpt5 ==
    \A k \in ModelCalls :
        /\ calls[k].temperature = Undefined <=> ContainsGpt5(OPENAI_MODEL)
        /\ ~ContainsGpt5(OPENAI_MODEL) => calls[k].temperature = "0.2"
\* a finished run under a mixed-case gpt-5 name: both calls were made
C9_Witness ==
    /\ pc = "done"
    /\ OPENAI_MODEL = <<"G", "p", "t", "-", "5", "-", "M", "i", "n", "i">>
    /\ \E k \in ModelCalls : calls[k].op = "summarize"
    /\ \E k \in ModelCalls : calls[k].op = "rollup"

\* the entries a count object must hold for the values of the commits
ExactCounts(counts, values) ==
    /\ DOMAIN counts = {ToPropertyKey(values[j]) : j \in 1..Len(values)}
    /\ \A key \in DOMAIN counts :
          counts[key] =
              JsNumber(Cardinality({j \in 1..Len(values) :
                                       ToPropertyKey(values[j]) = key}))
\* C10: in a report, typeCounts maps each change_type to the number of
\* commits with it, riskCounts each risk likewise, and a value of no commit
\* has no entry.
C10_ExactCounts ==
    response.status = 200 =>
        LET cs == response.commits
        IN /\ ExactCounts(response.aggregate.typeCounts,
                          [j \in 1..Len(cs) |-> cs[j].ai.change_type])
           /\ ExactCounts(response.aggregate.riskCounts,
                          [j \in 1..Len(cs) |-> cs[j].ai.risk])

\* the area tags of the enriched commits, commit after commit
RECURSIVE AreaTags(_)
AreaTags(res) ==
    IF res = <<>> THEN <<>>
    ELSE res[1].ai.areas \o AreaTags(Tail(res))
Occurrences(tags, t) == Cardinality({k \in 1..Len(tags) : tags[k] = t})
FirstIndex(tags, t) == CHOOSE k \in 1..Len(tags) :
    tags[k] = t /\ \A j \in 1..(k - 1) : tags[j] # t
\* tag a is listed before tag b: more occurrences, or as many and seen first
RankedBefore(tags, a, b) ==
    \/ Occurrences(tags, a) > Occurrences(tags, b)
    \/ /\ Occurrences(tags, a) = Occurrences(tags, b)
       /\ FirstIndex(tags, a) < FirstIndex(tags, b)

\* C11: whatever the area tags of the commits, in commit order, the topAreas
\* of the report are the distinct tags by descending number of occurrences,
\* equal numbers in the order of first occurrence, cut to the first 10.
C11_TopAreasOrder ==
    pc = "done" =>
        LET tags == AreaTags(response.commits)
            top == response.aggregate.topAreas
        IN /\ Len(top) = Min(10, Cardinality(Range(tags)))
           /\ \A k \in 1..Len(top) :
                 /\ top[k] \in Range(tags)
                 /\ Cardinality({t \in Range(tags) :
                                    RankedBefore(tags, t, top[k])}) = k - 1
\* a report of more than ten distinct tags, with unequal and equal counts
C11_Witness ==
    /\ pc = "done"
    /\ LET tags == AreaTags(response.commits)
           top == response.aggregate.topAreas
       IN /\ Cardinality(Range(tags)) > 10
          /\ Len(top) = 10
          /\ Occurrences(tags, top[1]) > Occurrences(tags, top[2])
          /\ Occurrences(tags, top[3]) = Occurrences(tags, top[4])
          /\ FirstIndex(tags, top[1]) > FirstIndex(tags, top[2])

\* the elements of a sequence that are not merge commits, in its order
RECURSIVE WithoutMerges(_)
WithoutMerges(list) ==
    IF list = <<>> THEN <<>>
    ELSE IF HasTwoParents(Head(list)) THEN WithoutMerges(Tail(list))
    ELSE <<Head(list)>> \o WithoutMerges(Tail(list))
\* the refs of the detail fetches, in the order of the calls
RECURSIVE RefsFetched(_)
RefsFetched(cs) ==
    IF cs = <<>> THEN <<>>
    ELSE IF Head(cs).op = "getCommit"
    THEN <<Head(cs).ref>> \o RefsFetched(Tail(cs))
    ELSE RefsFetched(Tail(cs))

\* C14: a finished run on a named branch (or the default one) with
\* includeMerges = false has fetched and summarized exactly the first
\* min(maxCommits, k) of the k non-merge commits of the upstream list, in
\* upstream order, and aggregate.count is their number and the length of
\* the commits of the report.
C14_SinglePathProcessed ==
    (pc = "done" /\ ~AnyPath /\ ~req.includeMerges) =>
        LET nonMerges == WithoutMerges(UpstreamOrder)
            expected == SubSeq(nonMerges, 1, Min(req.maxCommits, Len(nonMerges)))
        IN /\ RefsFetched(calls) = expected
           /\ [k \in 1..Len(response.commits) |-> response.commits[k].sha]
                 = expected
           /\ response.aggregate.count = Len(expected)
           /\ Len(response.commits) = Len(expected)
\* three upstream commits, a merge ahead of a non-merge, a cap of two
C14_Witness ==
    /\ pc = "done" /\ ~AnyPath /\ ~req.includeMerges
    /\ req.maxCommits = 2
    /\ Len(UpstreamOrder) = 3
    /\ HasTwoParents(UpstreamOrder[2])
    /\ Len(response.commits) = 2
    /\ response.aggregate.count = 2

\* ------------------------------------------------ properties of the registry
\* the lines sent for id by the operations lo..hi of the history, in order
RECURSIVE LinesSent(_, _, _)
LinesSent(id, lo, hi) ==
    IF hi < lo THEN <<>>
    ELSE IF lo = hi
    THEN IF hist[lo].op = "send" /\ hist[lo].id = id THEN <<hist[lo].msg>>
         ELSE <<>>
    ELSE LET mid == (lo + hi) \div 2
         IN LinesSent(id, lo, mid) \o LinesSent(id, mid + 1, hi)
\* the operations of a kind invoked for id among lo..hi
OpsOf(op, id, lo, hi) == {k \in lo..hi : hist[k].op = op /\ hist[k].id = id}
\* where connection c subscribed
SubscribedAt(c) ==
    CHOOSE k \in 1..Len(hist) : hist[k].op = "subscribe" /\ hist[k].conn = c
Connections == 1..Len(conns)
\* what connection c was written before its ready marker, and after it
ReadyAt(c) == CHOOSE k \in 1..Len(sse[c]) : sse[c][k] = ReadyEvent
Replayed(c) == SubSeq(sse[c], 1, ReadyAt(c) - 1)
Streamed(c) == SubSeq(sse[c], ReadyAt(c) + 1, Len(sse[c]))
\* c is the first to subscribe to its id, and no done came before
FirstSubscriber(c) ==
    /\ OpsOf("subscribe", conns[c].id, 1, SubscribedAt(c) - 1) = {}
    /\ OpsOf("done", conns[c].id, 1, SubscribedAt(c) - 1) = {}

\* C12: when lines m1..mk are sent for an id before anyone subscribed to it,
\* the first subscriber is written m1..mk in send order, then one ready
\* marker, and after the marker only what was sent after it subscribed.
C12_ReplayThenReady ==
    \A c \in Connections :
        FirstSubscriber(c) =>
            LET id == conns[c].id
                before == LinesSent(id, 1, SubscribedAt(c))
                after == LinesSent(id, SubscribedAt(c), Len(hist))
            IN /\ Len(sse[c]) > Len(before)
               /\ SubSeq(sse[c], 1, Len(before)) =
                      [k \in 1..Len(before) |-> MessageEvent(before[k])]
               /\ sse[c][Len(before) + 1] = ReadyEvent
               /\ \A k \in (Len(before) + 2)..Len(sse[c]) :
                     \/ sse[c][k] = DoneEvent
                     \/ /\ sse[c][k].event = "message"
                        /\ sse[c][k].msg \in Range(after)
\* two lines sent, then the first subscriber, then a line written live
C12_Witness ==
    \E c \in Connections :
        /\ FirstSubscriber(c)
        /\ Len(LinesSent(conns[c].id, 1, SubscribedAt(c))) >= 2
        /\ Len(Replayed(c)) >= 2
        /\ \E k \in 1..Len(Streamed(c)) : Streamed(c)[k].event = "message"

\* the last n elements of a sequence
LastN(s, n) == SubSeq(s, Len(s) - Min(n, Len(s)) + 1, Len(s))

\* C13: the buffer of a channel never holds more than 2000 lines, and the
\* buffer of a channel that never had a subscriber (and was never completed)
\* holds the last min(n, 2000) of the n lines sent to it, in send order.
C13_BufferCap ==
    \A id \in DOMAIN channels :
        /\ Len(channels[id].buffer) <= 2000
        /\ (/\ OpsOf("subscribe", id, 1, Len(hist)) = {}
            /\ OpsOf("done", id, 1, Len(hist)) = {})
           => channels[id].buffer = LastN(LinesSent(id, 1, Len(hist)), 2000)
\* more than 2000 lines sent to an unobserved channel: the first is dropped
C13_Witness ==
    /\ Cardinality(OpsOf("send", "r1", 1, Len(hist))) > 2000
    /\ OpsOf("subscribe", "r1", 1, Len(hist)) = {}
    /\ Len(channels["r1"].buffer) = 2000
    /\ channels["r1"].buffer[1] # hist[1].msg

\* the last done invoked for id among the operations 1..hi (0: none)
LastDone(id, hi) ==
    IF OpsOf("done", id, 1, hi) = {} THEN 0
    ELSE CHOOSE k \in OpsOf("done", id, 1, hi) :
             \A j \in OpsOf("done", id, 1, hi) : j <= k

\* C15: every line sent for an id is in the buffer of its channel (up to the
\* cap of 2000), a subscriber being attached or not, so that a subscriber is
\* replayed every line sent for its id (since the last done) before it came.
C15_SendAlwaysBuffers ==
    /\ \A id \in ProgressIds :
          LET sent == LinesSent(id, LastDone(id, Len(hist)) + 1, Len(hist))
          IN sent # <<>> =>
                /\ id \in DOMAIN channels
                /\ channels[id].buffer = LastN(sent, 2000)
    /\ \A c \in Connections :
          LET id == conns[c].id
              at == SubscribedAt(c)
          IN Replayed(c) =
                [k \in 1..Len(LinesSent(id, LastDone(id, at) + 1, at)) |->
                    MessageEvent(LinesSent(id, LastDone(id, at) + 1, at)[k])]

\* the operation that detached connection c from its id: the next subscribe
\* or done for the id, or the close of c (beyond the history: none yet)
DetachedAt(c) ==
    LET ends == {k \in (SubscribedAt(c) + 1)..Len(hist) :
                    /\ hist[k].id = conns[c].id
                    /\ \/ hist[k].op \in {"subscribe", "done"}
                       \/ hist[k].op = "close" /\ hist[k].conn = c}
    IN IF ends = {} THEN Len(hist) + 1
       ELSE CHOOSE k \in ends : \A j \in ends : k <= j
Replaced(c) ==
    /\ DetachedAt(c) <= Len(hist)
    /\ hist[DetachedAt(c)].op = "subscribe"

\* C16: an id has one live subscriber at a time, the last to subscribe: a
\* connection is written, after its ready marker, the lines sent for its id
\* from its subscription until the next subscription, done or its own close,
\* and the done marker if a done came first; once replaced it is written
\* nothing more.
C16_OnlyNewestSubscriber ==
    \A c \in Connections :
        LET id == conns[c].id
            live == LinesSent(id, SubscribedAt(c), DetachedAt(c) - 1)
            done == IF /\ DetachedAt(c) <= Len(hist)
                       /\ hist[DetachedAt(c)].op = "done"
                    THEN <<DoneEvent>> ELSE <<>>
        IN Streamed(c) =
              [k \in 1..Len(live) |-> MessageEvent(live[k])] \o done
\* a subscriber was replaced, and a line and the done marker went to the
\* one that replaced it
C16_Witness ==
    \E c1, c2 \in Connections :
        /\ conns[c1].id = conns[c2].id
        /\ Replaced(c1)
        /\ hist[DetachedAt(c1)].conn = c2
        /\ Len(Streamed(c2)) = 2
        /\ Streamed(c2)[2] = DoneEvent
        /\ Streamed(c1) = <<>>

Events(lines) == [k \in 1..Len(lines) |-> MessageEvent(lines[k])]
\* the closes that detached the live subscriber of id
LiveCloses(id) ==
    {k \in 1..Len(hist) :
        \E c \in Connections :
            /\ conns[c].id = id
            /\ DetachedAt(c) = k
            /\ hist[k].op = "close"}
\* no one subscribed to id, and no done came for it, among lo..hi
Unattended(id, lo, hi) ==
    /\ OpsOf("subscribe", id, lo, hi) = {}
    /\ OpsOf("done", id, lo, hi) = {}

\* C17: once the live subscriber of an id has disconnected, and until the
\* next subscribe or done for the id, the channel is in the registry with no
\* subscriber and the lines sent since are the end of its buffer, in send
\* order; the next subscriber is replayed them, in that order, last before
\* its ready marker.
C17_BufferedAfterDisconnect ==
    \A id \in ProgressIds :
        \A k \in LiveCloses(id) :
            /\ Unattended(id, k + 1, Len(hist)) =>
                  LET since == LinesSent(id, k, Len(hist))
                  IN /\ id \in DOMAIN channels
                     /\ channels[id].res = 0
                     /\ LastN(channels[id].buffer, Len(since)) = since
                     /\ Len(channels[id].buffer) >= Len(since)
            /\ \A c \in Connections :
                  (/\ conns[c].id = id
                   /\ SubscribedAt(c) > k
                   /\ Unattended(id, k + 1, SubscribedAt(c) - 1)) =>
                      LET since == LinesSent(id, k, SubscribedAt(c))
                      IN /\ Len(Replayed(c)) >= Len(since)
                         /\ LastN(Replayed(c), Len(since)) = Events(since)
\* a subscriber came and left, two lines were sent, and the next subscriber
\* was replayed them
C17_Witness ==
    \E id \in ProgressIds :
        \E k \in LiveCloses(id) :
            \E c \in Connections :
                /\ conns[c].id = id
                /\ SubscribedAt(c) > k
                /\ Unattended(id, k + 1, SubscribedAt(c) - 1)
                /\ Len(LinesSent(id, k, SubscribedAt(c))) = 2
                /\ Len(Replayed(c)) = 2

DoneMarkers(c) == {k \in 1..Len(sse[c]) : sse[c][k] = DoneEvent}
\* connection c was the live subscriber of its id when a done came for it
DetachedByDone(c) ==
    /\ DetachedAt(c) <= Len(hist)
    /\ hist[DetachedAt(c)].op = "done"

\* C18: a done for an id writes one done marker to the subscriber attached
\* at that time, as the last thing it is written, and to no one else; it
\* removes the channel, which stays out of the registry until the next send
\* or subscribe for the id; and a subscriber that comes after the done is
\* written no done marker for it and none of the lines sent before it.
C18_CompleteRemovesChannel ==
    /\ \A id \in ProgressIds :
          LET d == LastDone(id, Len(hist))
          IN (/\ d > 0
              /\ OpsOf("send", id, d, Len(hist)) = {}
              /\ OpsOf("subscribe", id, d, Len(hist)) = {})
             => id \notin DOMAIN channels
    /\ \A c \in Connections :
          LET id == conns[c].id
              d == LastDone(id, SubscribedAt(c))
          IN /\ IF DetachedByDone(c)
                THEN DoneMarkers(c) = {Len(sse[c])}
                ELSE DoneMarkers(c) = {}
             /\ \A k \in 1..Len(sse[c]) :
                   sse[c][k].event = "message" =>
                       /\ sse[c][k].msg \notin Range(LinesSent(id, 1, d))
                       /\ sse[c][k].msg \in Range(LinesSent(id, d + 1, Len(hist)))
\* a subscriber received the done marker of a run with lines, and the
\* subscriber that came next was written the ready marker alone
C18_Witness ==
    \E c1, c2 \in Connections :
        /\ conns[c1].id = conns[c2].id
        /\ DetachedByDone(c1)
        /\ DoneMarkers(c1) # {}
        /\ LastDone(conns[c2].id, SubscribedAt(c2)) = DetachedAt(c1)
        /\ LinesSent(conns[c2].id, 1, DetachedAt(c1)) # <<>>
        /\ sse[c2] = <<ReadyEvent>>

\* ------------------------------------------------ properties of a run
\* the request had its required fields, and the run has responded
Responded == response.status \in {200, 500}

\* C19: when a run that passed the validation has responded, its done was
\* invoked, the operation just before it was the send of its last line,
\* the final timing line of a success or the error line of a failure, and
\* an observer attached at that time was written that line and then the
\* done marker, last; until the response no done is invoked.
C19_LastLineThenDone ==
    LET id == req.requestId
        d == LastDone(id, Len(hist))
    IN id # "" =>
          /\ response.status = 0 => d = 0
          /\ Responded =>
                /\ d > 1
                /\ hist[d - 1].op = "send" /\ hist[d - 1].id = id
                /\ hist[d - 1].msg.kind =
                      (IF response.status = 200 THEN "Done in" ELSE "Error")
                /\ response.status = 500 => hist[d - 1].msg.s = response.error
                /\ OpsOf("send", id, d, Len(hist)) = {}
                /\ \A c \in Connections :
                      (conns[c].id = id /\ DetachedAt(c) = d) =>
                          /\ Len(sse[c]) >= 3
                          /\ sse[c][Len(sse[c])] = DoneEvent
                          /\ sse[c][Len(sse[c]) - 1] = MessageEvent(hist[d - 1].msg)
\* a run failed by a collaborator after its first call, before an observer
C19_Witness ==
    /\ response.status = 500
    /\ Len(calls) >= 2
    /\ \E c \in Connections :
          /\ conns[c].id = req.requestId
          /\ DetachedByDone(c)
          /\ sse[c][Len(sse[c]) - 1].msg.kind = "Error"

RollupCalls == {k \in 1..Len(calls) : calls[k].op = "rollup"}
\* what was sent on res is an error and nothing else
ErrorOnly ==
    /\ response.error # ""
    /\ response.summaryMarkdown = ""
    /\ response.commits = <<>>
    /\ response.aggregate = <<>>
\* what was sent on res is the report of all the collected commits
CompleteReport ==
    /\ response.error = ""
    /\ response.summaryMarkdown # ""
    /\ [k \in 1..Len(response.commits) |-> response.commits[k].sha] = commits
    /\ response.aggregate.count = Len(commits)
    /\ RollupCalls # {}
    /\ Cardinality(GetCommitCalls) = Len(commits)

\* C20: a run responds once, when it ends: with the report of all the
\* collected commits, enriched, and the rollup, or with an error and
\* nothing else; a response is never followed by another; and a rejected
\* collaborator call ends the run with an error that carries no commit.
C20_OneResponse ==
    /\ [](/\ response.status \in {0, 200, 400, 500}
          /\ response.status = 0 <=> pc \notin {"done", "failed"}
          /\ response.status = 200 => CompleteReport
          /\ response.status \in {400, 500} => ErrorOnly)
    /\ [][/\ response # NoResponse => response' = response
          /\ (\E err \in Errors : CollaboratorFails(err)) =>
                 (response'.status = 500 /\ response'.commits = <<>>)]_vars
\* a collaborator call failed after a commit had been enriched
C20_Witness ==
    /\ pc = "failed"
    /\ Len(results) >= 1
    /\ response.error = "Not Found"
    /\ ErrorOnly

\* the repo references of the two accepted forms, owner/repo and GitHub URL
AcceptedRepos == {"octo/demo", "https://github.com/octo/demo.git"}
InvalidInput ==
    \/ req.repo = "" \/ req.since = "" \/ req.until = ""
    \/ req.repo \notin AcceptedRepos

\* C21: a request without repo, since or until, or whose repo is of neither
\* accepted form, ends failed with an error response as soon as it is
\* handled, and no collaborator call is ever issued for it.
C21_InvalidInputNoCall ==
    InvalidInput =>
        /\ calls = <<>>
        /\ pc \in {"start", "failed"}
        /\ pc = "failed" => (response.status \in {400, 500} /\ ErrorOnly)
\* a request with all its fields and a repo of neither form has failed
C21_Witness ==
    /\ req.repo = "octo/demo/extra"
    /\ req.since # "" /\ req.until # ""
    /\ pc = "failed"
    /\ response.error = InvalidRepoMessage
    /\ calls = <<>>

LinesOf(h, id) == {k \in 1..Len(h) : h[k].op = "send" /\ h[k].id = id}

\* C22: every step of a run that takes it to another state of the
\* orchestrator (validation to collection or to failure, collection to
\* enrichment, one commit to the next, enrichment to the rollup, the rollup
\* to the end, anything to failure) sends a progress line on the channel of
\* the run.
C22_EveryTransitionNarrated ==
    [][(req.requestId # "" /\ pc' # pc) =>
          Cardinality(LinesOf(hist', req.requestId)) >
              Cardinality(LinesOf(hist, req.requestId))]_vars

\* C23: once a run with a requestId has responded, whichever way it ended,
\* done was invoked for its id, and a subscriber of the id that was there
\* before the run, and stayed, was written the done marker.
C23_AlwaysCompleted ==
    (req.requestId # "" /\ response.status # 0) =>
        /\ LastDone(req.requestId, Len(hist)) > 0
        /\ \A c \in Connections :
              (/\ conns[c].id = req.requestId
               /\ SubscribedAt(c) = 1
               /\ conns[c].open
               /\ ~Replaced(c)) => DoneMarkers(c) # {}

CallsOf(op, hi) == {k \in 1..hi : calls[k].op = op}
Awaiting ==
    pc \in {"listBranches", "listCommitsAny", "listCommits", "getCommit",
            "summarize", "rollup"}
\* the operation the handler is suspended on
AwaitedOp == IF pc = "listCommitsAny" THEN "listCommits" ELSE pc
\* C24: a run has at most one collaborator call outstanding: the call it is
\* suspended on is the last one issued, every summarization call but the
\* last issued has returned, and the detail fetch of each commit after the
\* first directly follows the summarization call of the commit before it,
\* which has returned.
C24_OneCallOutstanding ==
    /\ Awaiting => (calls # <<>> /\ calls[Len(calls)].op = AwaitedOp)
    /\ Cardinality(CallsOf("getCommit", Len(calls)))
          - Cardinality(CallsOf("summarize", Len(calls))) \in {0, 1}
    /\ Cardinality(CallsOf("summarize", Len(calls))) - Len(texts) \in {0, 1}
    /\ Cardinality(CallsOf("summarize", Len(calls))) - Len(texts) = 1
          => pc \in {"summarize", "failed"}
    /\ \A k \in CallsOf("getCommit", Len(calls)) :
          LET i == Cardinality(CallsOf("getCommit", k))
          IN /\ calls[k].ref = commits[i]
             /\ i > 1 =>
                   /\ calls[k - 1].op = "summarize"
                   /\ calls[k - 1].ref = commits[i - 1]
                   /\ Cardinality(CallsOf("summarize", k - 1)) = i - 1
                   /\ Len(texts) >= i - 1
\* the detail fetch of the third commit is outstanding, two answers are in
C24_Witness ==
    /\ pc = "getCommit"
    /\ idx = 3
    /\ Len(texts) = 2
    /\ Len(calls) >= 6

\* the author date of a commit, the committer date when it has no author date
DateOf(sha) ==
    IF AuthorDate(sha) # 0 THEN AuthorDate(sha) ELSE CommitterDate(sha)
\* C25: on the ANY path the collected commits are in order of non-increasing
\* timestamp, the timestamp of a commit being its author date, or its
\* committer date when the author date is absent.
C25_NewestFirst ==
    (AnyPath /\ Collected) =>
        \A a, b \in 1..Len(commits) :
            a < b => DateOf(commits[a]) >= DateOf(commits[b])
\* an older commit was read first and a commit without author date is placed
\* before it by its committer date
C25_Witness ==
    /\ AnyPath
    /\ pc = "done"
    /\ commits = <<2, 3>>
    /\ UpstreamOrder[1] = 3
    /\ AuthorDate(2) = 0

Reversed(list) == [k \in 1..Len(list) |-> list[Len(list) + 1 - k]]
\* C26: on the ANY path the collected sequence is the one the same upstream
\* content, window, includeMerges and maxCommits give when the branches are
\* enumerated in the opposite order.
C26_EnumerationOrderIrrelevant ==
    (AnyPath /\ Collected) =>
        commits = CollectAny(Reversed(branchNames), commitLists,
                             req.includeMerges, req.maxCommits)

HostingOps == {"listBranches", "listCommits", "getCommit"}
UpstreamNotFound == CHOOSE e \in Errors : e.status = 404
\* C29: when a hosting-API call of the analyze request is rejected with an
\* upstream status code, the error response carries that status code
\* together with the upstream message.
C29_UpstreamStatusPassed ==
    (/\ pc = "failed"
     /\ calls # <<>>
     /\ calls[Len(calls)].op \in HostingOps
     /\ response.error = UpstreamNotFound.message) =>
        response.status = UpstreamNotFound.status

IsTaggedLine(h) ==
    h.op = "send" /\ h.id = req.requestId
        /\ h.msg.kind \in {"Fetching", "Summarizing"}
IsEnrichCall(c) == c.op \in {"getCommit", "summarize"}
\* the (i/n) lines of the run, and its per-commit calls, in their order
TaggedLines == SelectSeq(hist, IsTaggedLine)
EnrichCalls == SelectSeq(calls, IsEnrichCall)
\* C30: the lines tagged (i/n) of a run with a requestId match its per-commit
\* calls one for one and in order: a Fetching line tagged (i/n) for the
\* detail fetch of commit i, then a Summarizing line tagged (i/n) for its
\* summarization call, for i = 1, 2, ... with n the number of collected
\* commits.
C30_TaggedLinesMatchCalls ==
    req.requestId # "" =>
        /\ Len(TaggedLines) = Len(EnrichCalls)
        /\ \A k \in 1..Len(TaggedLines) :
              LET i == (k + 1) \div 2
                  line == TaggedLines[k].msg
              IN /\ line.kind = IF k % 2 = 1 THEN "Fetching" ELSE "Summarizing"
                 /\ EnrichCalls[k].op =
                       IF k % 2 = 1 THEN "getCommit" ELSE "summarize"
                 /\ line.a = i
                 /\ line.b = Len(commits)
                 /\ i <= Len(commits)
                 /\ line.sha = commits[i]
                 /\ EnrichCalls[k].ref = commits[i]
\* a finished run over three commits: six tagged lines
C30_Witness ==
    /\ req.requestId = "r1"
    /\ pc = "done"
    /\ Len(commits) = 3
    /\ Len(TaggedLines) = 6
    /\ TaggedLines[6].msg = Msg("Summarizing", "", 3, 3, commits[3])

\* What a run does as a function of its request and of what its
\* collaborators answer, whoever listens: the branches it lists, the commits
\* it collects, the entries it reports, and its k-th collaborator call.
BranchesListed ==
    IF branchNames = <<>> THEN 0
    ELSE LET full == {k \in 1..Len(branchNames) :
                        Len(CollectSeen(<<>>, SubSeq(branchNames, 1, k),
                                        commitLists, req.includeMerges,
                                        req.maxCommits)) >= req.maxCommits}
         IN IF full = {} THEN Len(branchNames)
            ELSE CHOOSE k \in full : \A j \in full : k <= j
ListingCalls ==
    IF AnyPath
    THEN <<Call("listBranches", "", 0, "", <<>>)>>
            \o [k \in 1..BranchesListed |->
                   Call("listCommits", branchNames[k], 0, "", <<>>)]
    ELSE <<Call("listCommits",
                IF req.branch \in {Undefined, ""} THEN DEFAULT_BRANCH
                ELSE req.branch, 0, "", <<>>)>>
ExpectedCommits == CollectFor(req.includeMerges)
ExpectedResults ==
    [k \in 1..Len(ExpectedCommits) |->
        [sha |-> ExpectedCommits[k],
         ai |-> summarizeCommit(texts[k], FilesOf(ExpectedCommits[k]))]]
\* the k-th call of the run that lists with `listing` and collects `cs`
ExpectedCall(listing, cs, k) ==
    LET e == k - Len(listing)
        c == cs[(e + 1) \div 2]
    IN IF e <= 0 THEN listing[k]
       ELSE IF e > 2 * Len(cs)
       THEN ModelCall("rollup", 0, Bullets(ExpectedResults))
       ELSE IF e % 2 = 1 THEN Call("getCommit", "", c, "", <<>>)
       ELSE ModelCall("summarize", c, <<>>)
FieldsMissing == req.repo = "" \/ req.since = "" \/ req.until = ""
ClosedDuringRun ==
    \E k \in 2..Len(hist) - 1 :
        /\ hist[k].op = "close"
        /\ hist[k - 1].op = "send"
        /\ hist[k + 1].op = "send"
\* C27: with observers subscribing to and disconnecting from the channel of
\* a run at any moment, or never, the collaborator calls of the run are the
\* calls its request and the collaborators' answers determine, in their
\* order, so is its response, and the run is never left without a next step
\* before it has ended as done or failed.
C27_ObserversDoNotAlterRun ==
    LET listing == ListingCalls
        cs == ExpectedCommits
        ExpectedLen == Len(listing) + 2 * Len(cs) + 1
    IN /\ Len(calls) <= ExpectedLen
       /\ \A k \in 1..Len(calls) : calls[k] = ExpectedCall(listing, cs, k)
       /\ response.status = 400 <=> (pc = "failed" /\ FieldsMissing)
       /\ response.status = 500 => (pc = "failed" /\ ErrorOnly)
       /\ response.status = 200 =>
             /\ pc = "done"
             /\ Len(calls) = ExpectedLen
             /\ response.commits = ExpectedResults
             /\ response.error = ""
       /\ pc \notin {"done", "failed"} => ENABLED Next
\* a subscriber disconnected between two lines of a run that ended as done,
\* after which another subscribed
C27_Witness ==
    /\ response.status = 200
    /\ ClosedDuringRun
    /\ Len(conns) = 2
    /\ ~conns[1].open
    /\ Len(commits) = 1

\* the lines connection c was written, in the order of their writing
LinesWritten(c) ==
    LET IsMessage(e) == e.event = "message"
        written == SelectSeq(sse[c], IsMessage)
    IN [k \in 1..Len(written) |-> written[k].msg]
\* the operation of the run `id` that a step performs, if it is one
RunStepOf(id) ==
    /\ Len(hist') = Len(hist) + 1
    /\ hist'[Len(hist')].op \in {"send", "done"}
    /\ hist'[Len(hist')].id = id
\* C28: with the runs r1 and r2 sending and completing concurrently, a send
\* or a done of one run leaves the channel of the other and what its
\* subscribers were written as they are; a subscriber is written only lines
\* that were sent for its own id, in the order of their sending, and a done
\* marker only when a done came for its own id.
C28_RunsIsolated ==
    /\ [](\A c \in Connections :
            /\ \A k \in 1..Len(LinesWritten(c)) :
                  \E j \in OpsOf("send", conns[c].id, 1, Len(hist)) :
                      hist[j].msg = LinesWritten(c)[k]
            /\ \A k, j \in 1..Len(LinesWritten(c)) :
                  k < j => LinesWritten(c)[k].a < LinesWritten(c)[j].a
            /\ DoneMarkers(c) # {} =>
                  OpsOf("done", conns[c].id, SubscribedAt(c), Len(hist)) # {})
    /\ [][\A a, b \in ProgressIds :
            (a # b /\ RunStepOf(a)) =>
                /\ (b \in DOMAIN channels') = (b \in DOMAIN channels)
                /\ b \in DOMAIN channels => channels'[b] = channels[b]
                /\ \A c \in Connections : conns[c].id = b => sse'[c] = sse[c]]_vars
\* both runs have a subscriber that was written a line; r1 is done and its
\* subscriber has the marker, the subscriber of r2 is still attached
C28_Witness ==
    /\ Len(conns) = 2
    /\ conns[1].id = "r1" /\ conns[2].id = "r2"
    /\ LinesWritten(1) # <<>> /\ LinesWritten(2) # <<>>
    /\ DoneMarkers(1) # {} /\ DoneMarkers(2) = {}
    /\ "r1" \notin DOMAIN channels
    /\ "r2" \in DOMAIN channels /\ channels["r2"].res = 2

ListCommitsCalls == {k \in 1..Len(calls) : calls[k].op = "listCommits"}
\* C31: on the ANY path, from a state where the dedup set holds maxCommits
\* commits or more, no step inserts a commit into it and no step issues a
\* commit-list request.
C31_StopAtCap ==
    [][(AnyPath /\ Len(seen) >= req.maxCommits) =>
          /\ seen' = seen
          /\ \A k \in 1..Len(calls') :
                calls'[k].op = "listCommits" => k <= Len(calls)]_vars

\* C32: the report of a successful run has one entry per collected commit,
\* with the shas of the collected commits in the collected order, and the one
\* rollup call of the run was made with one bullet per collected commit, in
\* that order, each with the summary of the report's entry for the commit.
C32_ReportMatchesCollection ==
    response.status = 200 =>
        /\ Len(response.commits) = Len(commits)
        /\ \A k \in 1..Len(commits) : response.commits[k].sha = commits[k]
        /\ Cardinality(RollupCalls) = 1
        /\ \A r \in RollupCalls :
              /\ Len(calls[r].bullets) = Len(commits)
              /\ \A k \in 1..Len(commits) :
                    /\ calls[r].bullets[k].sha = commits[k]
                    /\ calls[r].bullets[k].summary =
                          IF response.commits[k].ai.summary \in {Undefined, ""}
                          THEN "(no summary)"
                          ELSE response.commits[k].ai.summary
\* a successful run over three commits whose summaries are not all the same
C32_Witness ==
    /\ response.status = 200
    /\ Len(commits) = 3
    /\ \E r \in RollupCalls :
          calls[r].bullets[1].summary # calls[r].bullets[3].summary

\* a text that is absent, empty, or made of white space only
NoContent(text) == text \in {Undefined, "", TextBlank}
\* a text without the white space at its ends
Stripped(text) == IF text = RollupPadded THEN RollupDocument ELSE text
\* C33: every return of the rollup call with a text ends the run as done,
\* with status 200: the narrative of the report is the placeholder document
\* when the text is absent, empty or white space only, and otherwise the
\* text without the white space at its ends, and nothing else.
C33_RollupTextOrPlaceholder ==
    [][\A text \in RollupTexts :
          RollupReturn(text) =>
              /\ pc' = "done"
              /\ response'.status = 200
              /\ response'.error = ""
              /\ response'.summaryMarkdown =
                    IF NoContent(text) THEN Placeholder ELSE Stripped(text)]_vars
\* a run over a commit ended as done with the placeholder for narrative
C33_Witness ==
    /\ pc = "done"
    /\ response.status = 200
    /\ response.summaryMarkdown = Placeholder
    /\ Len(response.commits) >= 1

\* the calls of the run that ask the same thing as its k-th call
SameRequest(k) ==
    {j \in 1..Len(calls) :
        /\ calls[j].op = calls[k].op
        /\ calls[j].branch = calls[k].branch
        /\ calls[j].ref = calls[k].ref}
\* C34: no request of a run is issued twice: one branch listing, one commit
\* list per branch, one detail fetch and one summarization call per commit,
\* one rollup call, each for a collected commit or a listed branch; the
\* rejection of a call ends the run as failed without a call being issued,
\* and a run that has failed issues no call.
C34_NoRetry ==
    /\ [](/\ \A k \in 1..Len(calls) : SameRequest(k) = {k}
          /\ Cardinality(RollupCalls) <= 1
          /\ Collected =>
                \A k \in 1..Len(calls) :
                    calls[k].op \in {"getCommit", "summarize"} =>
                        calls[k].ref \in Range(commits))
    /\ [][/\ (\E err \in Errors : CollaboratorFails(err)) =>
                 (calls' = calls /\ pc' = "failed")
          /\ pc = "failed" => calls' = calls]_vars
\* the summarization call of the second commit was rejected
C34_Witness ==
    /\ pc = "failed"
    /\ response.error = "socket hang up"
    /\ calls # <<>>
    /\ calls[Len(calls)].op = "summarize"
    /\ Len(results) = 1
    /\ Len(commits) >= 2

\* c is the one subscriber its id ever had, it came before any done for the
\* id, and it has not disconnected
SingleSubscriber(c) ==
    /\ OpsOf("subscribe", conns[c].id, 1, Len(hist)) = {SubscribedAt(c)}
    /\ OpsOf("done", conns[c].id, 1, SubscribedAt(c)) = {}
    /\ conns[c].open
\* what connection c was written, its ready marker left out
Observed(c) ==
    LET NotReady(e) == e # ReadyEvent
    IN SelectSeq(sse[c], NotReady)
\* C35: a single subscriber of an id, which subscribed at any point before
\* the done for the id and stays, was written, replay and live writes
\* together, the lines sent for the id up to the done, each once and in send
\* order, then, once the done has come, the done marker and nothing after it.
C35_FullSequenceThenDone ==
    \A c \in Connections :
        SingleSubscriber(c) =>
            LET id == conns[c].id
                d == DetachedAt(c)
                sent == LinesSent(id, 1, d - 1)
            IN Observed(c) =
                  Events(sent) \o (IF d <= Len(hist) THEN <<DoneEvent>> ELSE <<>>)
\* lines were sent before and after the subscription, then the done; a line
\* sent for the id after the done is not written
C35_Witness ==
    /\ Len(conns) = 1
    /\ SingleSubscriber(1)
    /\ Len(Replayed(1)) = 1
    /\ Len(Observed(1)) = 3
    /\ Observed(1)[3] = DoneEvent
    /\ Len(hist) = 5
    /\ hist[5].op = "send" /\ hist[5].id = conns[1].id

\* the closes of connection c that came after c had been replaced
ClosedAfterReplaced(c) ==
    {k \in (DetachedAt(c) + 1)..Len(hist) :
        Replaced(c) /\ hist[k].op = "close" /\ hist[k].conn = c}
\* C36: when a subscriber of an id was replaced by another and then
\* disconnected, the other stays the live subscriber of the id, until the
\* next subscribe or done for the id or its own close: the channel has it
\* for subscriber, and it was written every line sent for the id since its
\* subscription, the lines sent after the disconnect included.
C36_ReplacedCloseHarmless ==
    \A c1, c2 \in Connections :
        \A k \in ClosedAfterReplaced(c1) :
            (hist[DetachedAt(c1)].conn = c2 /\ DetachedAt(c2) > k) =>
                LET id == conns[c2].id
                    live == LinesSent(id, SubscribedAt(c2), DetachedAt(c2) - 1)
                    after == LinesSent(id, k, DetachedAt(c2) - 1)
                    IsMessage(e) == e.event = "message"
                    streamed == SelectSeq(Streamed(c2), IsMessage)
                IN /\ streamed = Events(live)
                   /\ Len(after) <= Len(streamed)
                   /\ LastN(streamed, Len(after)) = Events(after)
                   /\ DetachedAt(c2) > Len(hist) =>
                         (id \in DOMAIN channels /\ channels[id].res = c2)
\* the first subscriber was replaced by the second and disconnected, and a
\* line sent after that was written to the second
C36_Witness ==
    /\ Len(conns) = 2
    /\ ClosedAfterReplaced(1) # {}
    /\ hist[DetachedAt(1)].conn = 2
    /\ conns[2].open
    /\ hist[Len(hist)].op = "send" /\ hist[Len(hist)].id = conns[2].id
    /\ sse[2][Len(sse[2])] = MessageEvent(hist[Len(hist)].msg)
    /\ channels[conns[2].id].res = 2

\* C37: a connection is written the done marker at most once, and when it
\* was written it, the marker is the last thing it was written, whatever
\* sends, subscribes, closes and dones came after it, for its id or another.
C37_DoneOnceAndLast ==
    \A c \in Connections :
        /\ Cardinality(DoneMarkers(c)) <= 1
        /\ \A d \in DoneMarkers(c) : d = Len(sse[c])
\* a subscriber was written a line and the done marker; a line, then a
\* second done, came for its id after that
C37_Witness ==
    /\ Len(conns) = 1
    /\ conns[1].open
    /\ Len(hist) = 5
    /\ hist[3].op = "done" /\ hist[4].op = "send" /\ hist[5].op = "done"
    /\ \A k \in 3..5 : hist[k].id = conns[1].id
    /\ Len(sse[1]) = 3
    /\ sse[1][2].event = "message"
    /\ DoneMarkers(1) = {3}

RunEnded == pc \in {"done", "failed"}
AllDisconnected(id) ==
    \A c \in Connections : conns[c].id = id => ~conns[c].open
\* C38: once the run of a request with a requestId has ended, as done or as
\* failed, and every connection that subscribed to the id has closed, the
\* registry has no channel for the id.
C38_NoEntryAfterRun ==
    (req.requestId # "" /\ RunEnded /\ AllDisconnected(req.requestId)) =>
        req.requestId \notin DOMAIN channels

====
